---- MODULE Spec2Model ----
(***************************************************************************)
(* The transaction replayer.  The batch script of scripts/replay.ts: main   *)
(* iterates the configured transaction hashes and replays each one on a    *)
(* Hardhat network forked from the original chain                          *)
(* (replaySingleTransaction).  The two scripts that replay one transaction *)
(* in their main: scripts/replayTransaction.ts and the second script held  *)
(* by scripts/replay.ts.  A state of the model is a point where the script *)
(* is about to call one of its collaborators (the original network's       *)
(* provider or the Hardhat network); an action is that call, its answer    *)
(* and the code that runs up to the next call.                             *)
(***************************************************************************)
EXTENDS Integers, Sequences, FiniteSets, TLC

VARIABLES
    pc,           \* the call main / replaySingleTransaction is about to make
    world,        \* how varied the collaborators' answers are in this run
    script,       \* the script that runs
    txHashes,     \* context.txHashes
    txHashesString,  \* config.txHashesString, a sequence of characters
    outputFilePath,  \* config.outputFilePath
    originalChainId, \* the chain id of the network the original RPC serves
    i,            \* main's loop index: the number of replays completed
    txResponse,   \* replaySingleTransaction: txResponse (None: null)
    txReceipt,    \* replaySingleTransaction: txReceipt (None: null)
    block,        \* replaySingleTransaction: block (None: null)
                  \* (each of the three is Unset until its call has answered)
    j,            \* sendPreviousTransactions: 1-based position of the for-of loop
    e,            \* the exception caught around the target's sendTransaction
    entities,     \* what getDeployableContractEntities returned (None: not called)
    calls,        \* requests made to the Hardhat network in the current replay
    prevLog,      \* lines logged by sendPreviousTransactions in the current replay
    hardhat,      \* the Hardhat network: its fork and the transactions it holds
    results,      \* the (txHash, result) pairs passed to context.storeResult
    file,         \* the lines of the output file (None: there is no file)
    console,      \* the lines logged that tell how a replay ended
    providerCalls,  \* the calls the original network's provider has answered
    reconstructed,  \* the transactions defineRawTransaction was called with
                    \* in the current replay
    inFlight,     \* the calls that were made and have not been answered yet
    verboseLogging,  \* verboseLogging (SP_VERBOSE_LOGGING) of replay.ts
    logIndent,    \* context.logIndent of replay.ts, a sequence of characters
    logEnabled    \* context.logEnabled of replay.ts

vars == <<pc, world, script, txHashes, txHashesString, outputFilePath,
          originalChainId, i, txResponse, txReceipt, block, j, e, entities, calls,
          prevLog, hardhat, results, file, console, providerCalls, reconstructed,
          inFlight, verboseLogging, logIndent, logEnabled>>

\* what a run does not change: its configuration and the original network
settings == <<world, script, txHashes, txHashesString, outputFilePath, originalChainId,
              verboseLogging>>

\* the logging state of the shared context
logging == <<logIndent, logEnabled>>

(***************************************************************************)
(* Bounds of the model.                                                    *)
(***************************************************************************)
\* the longest list of transaction hashes replayed in one run
MaxBatch == 2
\* the most transactions that precede the target in its block
MaxPrev == 2

(***************************************************************************)
(* JavaScript values.  A value that may be null or undefined is a sequence *)
(* of length 0 (absent) or 1.                                              *)
(***************************************************************************)
None == <<>>
Some(x) == <<x>>
Val(o) == o[1]

\* a local no value has been assigned to yet
Unset == <<"unset", "unset">>

\* !x for a number that may be null: true for null, undefined and 0
FalsyNumber(o) == o = None \/ Val(o) = 0

\* a number that may be null where JavaScript needs a number (x ?? 0, x - 1)
NumberOrZero(o) == IF o = None THEN 0 ELSE Val(o)

(***************************************************************************)
(* Script configuration.                                                   *)
(***************************************************************************)
\* config.rpcUrl; rpcUrl of replayTransaction.ts
rpcUrl == "https://polygon-rpc.com"
\* rpcUrl of the second script of replay.ts
rpcUrlOfReplayOne == "http://127.0.0.1:9933"
\* network.config.chainId of the Hardhat network
HardhatChainId == 137
\* the chain ids the original network's RPC may report
ChainIds == {137, 80001}

(***************************************************************************)
(* Transactions.  The bytes of a signed transaction are the fields its     *)
(* envelope encodes; keccak256 is kept symbolic, so two byte strings have  *)
(* the same hash exactly when they are the same bytes.                     *)
(***************************************************************************)
keccak256(raw) == <<"keccak256", raw>>

\* the envelope originally broadcast: a legacy one encodes gasPrice, a
\* fee-market one (type 2) does not
Envelope(data, type) ==
    [type |-> type, gasPrice |-> IF type = 2 THEN None ELSE Some(7), data |-> data]

\* the bytes whose hash is h
Broadcast(h) == h[2]

\* the hashes the run is asked to replay: a legacy and a fee-market transaction
TxA == keccak256(Envelope(<<"a", 0>>, 0))
TxB == keccak256(Envelope(<<"b", 0>>, 2))
Hashes == {TxA, TxB}

\* the k-th transaction preceding the target in its block, and one after it
PrevEnvelope(k) == Envelope(<<"p", k>>, IF k % 2 = 1 THEN 2 ELSE 0)
NextEnvelope == Envelope(<<"q", 0>>, 0)

\* the gasPrice a provider reports: for a fee-market transaction the
\* effective price, which the envelope does not encode
ReportedGasPrice(env) == IF env.type = 2 THEN Some(9) ELSE env.gasPrice

\* The records a provider may return for the transaction broadcast as env:
\* with the raw bytes attached; without them, the fields transcribed
\* faithfully; without them, a field transcribed wrongly ...
Attached(env, bn) ==
    [hash |-> keccak256(env), blockNumber |-> bn, raw |-> Some(env),
     type |-> env.type, gasPrice |-> ReportedGasPrice(env), data |-> env.data]
Bare(env, bn) == [Attached(env, bn) EXCEPT !.raw = None]
Garbled(env, bn) == [Bare(env, bn) EXCEPT !.data = <<"garbled", 0>>]
\* ... and with raw bytes attached that are those of another transaction: the
\* provider's formatter hands raw on as it came
OtherEnvelope == Envelope(<<"x", 0>>, 0)
Mislabelled(env, bn) == [Attached(env, bn) EXCEPT !.raw = Some(OtherEnvelope)]

Shape(s, env, bn) ==
    CASE s = "attached" -> Attached(env, bn)
      [] s = "bare" -> Bare(env, bn)
      [] s = "mislabelled" -> Mislabelled(env, bn)
      [] OTHER -> Garbled(env, bn)

(***************************************************************************)
(* RawTransactionCodec: defineRawTransaction.                              *)
(***************************************************************************)
\* ethers.utils.serializeTransaction(t, s): the envelope of t's type over the
\* fields t holds.  A fee-market envelope has no gasPrice: given one that is
\* not the fee cap, ethers throws.
serializeTransaction(t) ==
    IF t.type = 2 /\ t.gasPrice # None
    THEN [threw |-> TRUE, message |-> "mismatch EIP-1559 gasPrice != maxFeePerGas",
          raw |-> None]
    ELSE [threw |-> FALSE, message |-> "",
          raw |-> Some([type |-> t.type, gasPrice |-> t.gasPrice, data |-> t.data])]

\* the fields of the record as they are
UnsignedFieldsOfRecord(tx) ==
    [type |-> tx.type, gasPrice |-> tx.gasPrice, data |-> tx.data]

\* txFields.reduce(addKey, {}) and the removal of gasPrice for type 2
UnsignedFields(tx) ==
    [type |-> tx.type,
     gasPrice |-> IF tx.type = 2 THEN None ELSE tx.gasPrice,
     data |-> tx.data]

\* a reconstruction that is not checked against the hash
defineRawTransactionUnchecked(tx) == serializeTransaction(UnsignedFields(tx))

defineRawTransaction(tx) ==
    LET ser == serializeTransaction(UnsignedFields(tx))
    IN  IF ser.threw THEN ser
        ELSE IF keccak256(Val(ser.raw)) # tx.hash
        THEN [threw |-> TRUE, message |-> "serializing failed!", raw |-> None]
        ELSE ser

\* defineRawTransaction(tx), whether raw bytes are attached or not
RawAlwaysDefined(tx) ==
    LET def == defineRawTransaction(tx)
    IN  [threw |-> def.threw, message |-> def.message, raw |-> def.raw, defined |-> TRUE]

\* tx.raw ?? defineRawTransaction(tx); defined: defineRawTransaction was called
RawOrDefined(tx) ==
    IF tx.raw # None
    THEN [threw |-> FALSE, message |-> "", raw |-> tx.raw, defined |-> FALSE]
    ELSE LET def == defineRawTransaction(tx)
         IN  [threw |-> def.threw, message |-> def.message, raw |-> def.raw,
              defined |-> TRUE]

(***************************************************************************)
(* checkTransaction: None when the checks pass, else the message thrown.   *)
(***************************************************************************)
checkTransactionNoBlockNumber(txResp, txRec) ==
    IF txResp = None
    THEN Some("The transaction with the provided hash does not exist")
    ELSE IF txRec = None
    THEN Some(" The transaction's receipt has not been found.")
    ELSE None

\* a check that refuses a block number that is null and lets 0 pass
\* (txResponse.blockNumber == null)
checkTransactionNullBlockNumber(txResp, txRec) ==
    IF txResp = None
    THEN Some("The transaction with the provided hash does not exist")
    ELSE IF Val(txResp).blockNumber = None
    THEN Some("The transaction with the provided hash has not been minted yet")
    ELSE IF txRec = None
    THEN Some(" The transaction's receipt has not been found.")
    ELSE None

checkTransaction(txResp, txRec) ==
    IF txResp = None
    THEN Some("The transaction with the provided hash does not exist")
    ELSE IF FalsyNumber(Val(txResp).blockNumber)
    THEN Some("The transaction with the provided hash has not been minted yet")
    ELSE IF txRec = None
    THEN Some(" The transaction's receipt has not been found.")
    ELSE None

\* block.transactions[txReceipt.transactionIndex].hash !== txResponse.hash:
\* None when the hashes agree, else the message thrown (a TypeError when
\* the block is null or the index is outside the array)
PositionMessage ==
    "The position of the target transaction doesn't match its index in the block transaction array"

checkPositionNoComparison(blk, txRec, txResp) ==
    IF blk = None
    THEN Some("Cannot read properties of null (reading 'transactions')")
    ELSE IF Val(txRec).transactionIndex + 1 > Len(Val(blk).transactions)
    THEN Some("Cannot read properties of undefined (reading 'hash')")
    ELSE None

\* block?.transactions[index]?.hash !== txResponse.hash: no TypeError, a
\* missing block or transaction is a mismatch
checkPositionOptionalChaining(blk, txRec, txResp) ==
    IF blk = None \/ Val(txRec).transactionIndex + 1 > Len(Val(blk).transactions)
    THEN Some(PositionMessage)
    ELSE IF Val(blk).transactions[Val(txRec).transactionIndex + 1].hash # Val(txResp).hash
    THEN Some(PositionMessage)
    ELSE None

checkPosition(blk, txRec, txResp) ==
    IF blk = None
    THEN Some("Cannot read properties of null (reading 'transactions')")
    ELSE IF Val(txRec).transactionIndex + 1 > Len(Val(blk).transactions)
    THEN Some("Cannot read properties of undefined (reading 'hash')")
    ELSE IF Val(blk).transactions[Val(txRec).transactionIndex + 1].hash # Val(txResp).hash
    THEN Some(PositionMessage)
    ELSE None

\* const previousBlockNumber = txResponse.blockNumber - 1
sameBlockNumber(txResp) == NumberOrZero(Val(txResp).blockNumber)
previousBlockNumber(txResp) == NumberOrZero(Val(txResp).blockNumber) - 1

(***************************************************************************)
(* ErrorClassifier.  A revert payload (errorData, a hex string) is modelled*)
(* by its length in bytes, its first four bytes and what follows them:     *)
(* args.form says what the rest is the ABI encoding of ("string", "uint",  *)
(* or "junk" for bytes that are no encoding at all).                       *)
(***************************************************************************)
ErrorSelector == "0x08c379a0"
PanicSelector == "0x4e487b71"
\* An unsigned 256-bit number is written <<hi, lo>>, standing for
\* hi * 2^27 + lo with lo < 2^27.
Uint(hi, lo) == <<hi, lo>>
\* Number.MAX_SAFE_INTEGER is 2^53 - 1: <<2^26 - 1, 2^27 - 1>>;
\* BigNumber.toNumber throws above it
MaxSafeHi == 67108863
ToNumberThrows(n) == n[1] > MaxSafeHi

Payload(len, selector, form, str, num) ==
    [len |-> len, selector |-> selector,
     args |-> [form |-> form, str |-> str, num |-> num]]

\* errorData.startsWith(prefix) for a 4-byte prefix
StartsWith(errorData, selector) == errorData.len >= 4 /\ errorData.selector = selector

\* The outcome texts.  One record shape for all of them: kind names the text,
\* the other fields are what is interpolated into it.
Outcome(kind) == [kind |-> kind, message |-> "", code |-> Uint(0, 0), candidates |-> <<>>,
                  data |-> None, also |-> <<>>]
Success == Outcome("Success")
RevertedWithMessage(reason) == [Outcome("RevertedWithMessage") EXCEPT !.message = reason]
RevertedWithPanic(code, reason) ==
    [Outcome("RevertedWithPanic") EXCEPT !.code = code, !.message = reason]
RevertedWithCustomError(cands) ==
    [Outcome("RevertedWithCustomError") EXCEPT !.candidates = cands]
RevertedUndecodable(errorData) ==
    [Outcome("RevertedUndecodable") EXCEPT !.data = Some(errorData)]
RevertedNoData == Outcome("RevertedNoData")
\* "The transaction sending or minting has been failed with the exception: ..."
SendingFailed(message) == [Outcome("SendingFailed") EXCEPT !.message = message]
\* "An exception rose before transaction sending: ..."
ExceptionBeforeSending(message) ==
    [Outcome("ExceptionBeforeSending") EXCEPT !.message = message]

panicErrorCodeToReason(n) ==
    LET errorCode == IF n[1] = 0 THEN n[2] ELSE -1
    IN
    CASE errorCode = 1 -> "Assertion error"
      [] errorCode = 17 -> "Arithmetic operation underflowed or overflowed outside of an unchecked block"
      [] errorCode = 18 -> "Division or modulo division by zero"
      [] errorCode = 33 -> "Tried to convert a value into an enum, but the value was too big or negative"
      [] errorCode = 34 -> "Incorrectly encoded storage byte array"
      [] errorCode = 49 -> ".pop() was called on an empty array"
      [] errorCode = 50 -> "Array accessed at an out-of-bounds or negative index"
      [] errorCode = 65 -> "Too much memory was allocated, or an array was created that is too large"
      [] errorCode = 81 -> "Called a zero-initialized variable of internal function type"
      [] OTHER -> "???"

\* The deployable contracts of the "contracts" directory: each interface maps
\* the selectors of its custom errors to the error's name and argument form.
ContractEntity(name, errors) == [contractName |-> name, errors |-> errors]
ErrorFragment(name, form) == [name |-> name, form |-> form]

\* contractFactory.interface.parseError(errorData): the error description,
\* or a throw when no error of the interface has the selector or the
\* arguments do not decode
parseError(entity, errorData) ==
    IF /\ errorData.len >= 4
       /\ errorData.selector \in DOMAIN entity.errors
       /\ entity.errors[errorData.selector].form = errorData.args.form
    THEN [threw |-> FALSE, name |-> entity.errors[errorData.selector].name]
    ELSE [threw |-> TRUE, name |-> ""]

\* the string pushed for an interface that decodes the payload
DecodedError(entity, errorData) ==
    [name |-> parseError(entity, errorData).name,
     args |-> errorData.args,
     contract |-> entity.contractName]

\* a decoding that stops at the first contract
decodeCustomErrorDataOfFirst(errorData, ents) ==
    IF ents = <<>> \/ parseError(Head(ents), errorData).threw
    THEN <<>>
    ELSE <<DecodedError(Head(ents), errorData)>>

RECURSIVE decodeCustomErrorData(_, _)
decodeCustomErrorData(errorData, ents) ==
    IF ents = <<>> THEN <<>>
    ELSE LET rest == decodeCustomErrorData(errorData, Tail(ents))
         IN  IF parseError(Head(ents), errorData).threw
             THEN rest
             ELSE <<DecodedError(Head(ents), errorData)>> \o rest

\* defaultAbiCoder.decode(["string"], content), and the text around it
decodeRevertMessage(errorData) ==
    IF errorData.args.form = "string"
    THEN [threw |-> FALSE, message |-> "",
          result |-> Some(RevertedWithMessage(errorData.args.str))]
    ELSE [threw |-> TRUE, message |-> "data out-of-bounds", result |-> None]

\* defaultAbiCoder.decode(["uint"], content), code[0].toNumber()
decodePanicCode(errorData) ==
    IF errorData.args.form # "uint"
    THEN [threw |-> TRUE, message |-> "data out-of-bounds", result |-> None]
    ELSE IF ToNumberThrows(errorData.args.num)
    THEN [threw |-> TRUE, message |-> "overflow", result |-> None]
    ELSE [threw |-> FALSE, message |-> "",
          result |-> Some(RevertedWithPanic(errorData.args.num,
                                            panicErrorCodeToReason(errorData.args.num)))]

\* the selector's decoding with no custom errors behind it
WithoutAlso(dec, cands) == dec

\* "Also it can be the following custom error(s): ..."
WithAlso(dec, cands) ==
    IF dec.threw \/ cands = <<>> THEN dec
    ELSE [dec EXCEPT !.result = Some([Val(dec.result) EXCEPT !.also = cands])]

decodeErrorData(errorData, ents) ==
    LET decodedCustomErrorStrings == decodeCustomErrorData(errorData, ents)
    IN  IF StartsWith(errorData, ErrorSelector)
        THEN WithAlso(decodeRevertMessage(errorData), decodedCustomErrorStrings)
        ELSE IF StartsWith(errorData, PanicSelector)
        THEN WithAlso(decodePanicCode(errorData), decodedCustomErrorStrings)
        ELSE IF decodedCustomErrorStrings # <<>>
        THEN [threw |-> FALSE, message |-> "",
              result |-> Some(RevertedWithCustomError(decodedCustomErrorStrings))]
        ELSE [threw |-> FALSE, message |-> "",
              result |-> Some(RevertedUndecodable(errorData))]

\* e.message.includes("reverted without a reason")
NoReasonMessage == "Transaction reverted without a reason string"
IncludesWithoutReason(message) == message = NoReasonMessage

\* a decoding that takes every exception without error data for a revert
\* without error data
decodeExceptionDataAnyMessage(ex, ents) ==
    IF ex.data # None /\ Val(ex.data).len > 0
    THEN decodeErrorData(Val(ex.data), ents)
    ELSE [threw |-> FALSE, message |-> "", result |-> Some(RevertedNoData)]

\* decodeExceptionData(e): result None is the empty string
decodeExceptionData(ex, ents) ==
    IF ex.data # None /\ Val(ex.data).len > 0
    THEN decodeErrorData(Val(ex.data), ents)
    ELSE IF IncludesWithoutReason(ex.message)
    THEN [threw |-> FALSE, message |-> "", result |-> Some(RevertedNoData)]
    ELSE [threw |-> FALSE, message |-> "", result |-> None]

\* a catch block that takes the decoding result as it is: the empty string
\* when the exception tells nothing the decoding knows
TargetFailureResultAsDecoded(ex, ents) ==
    LET dec == decodeExceptionData(ex, ents)
    IN  IF dec.threw THEN dec
        ELSE IF dec.result # None THEN dec
        ELSE [dec EXCEPT !.result = Some(Outcome(""))]

\* the catch block around the target's sendTransaction: the decoding result,
\* or the exception's message when the decoding result is empty
TargetFailureResult(ex, ents) ==
    LET dec == decodeExceptionData(ex, ents)
    IN  IF dec.threw THEN dec
        ELSE IF dec.result # None THEN dec
        ELSE [dec EXCEPT !.result = Some(SendingFailed(ex.message))]

(***************************************************************************)
(* The classifier of the scripts that replay one transaction               *)
(* (replayTransaction.ts, and the second script of replay.ts): the text    *)
(* for a payload no contract decodes does not show the payload.            *)
(***************************************************************************)
RevertedUndecodablePlain == Outcome("RevertedUndecodable")

decodeErrorDataPlain(errorData, ents) ==
    LET decodedCustomErrorStrings == decodeCustomErrorData(errorData, ents)
    IN  IF StartsWith(errorData, ErrorSelector)
        THEN WithAlso(decodeRevertMessage(errorData), decodedCustomErrorStrings)
        ELSE IF StartsWith(errorData, PanicSelector)
        THEN WithAlso(decodePanicCode(errorData), decodedCustomErrorStrings)
        ELSE IF decodedCustomErrorStrings # <<>>
        THEN [threw |-> FALSE, message |-> "",
              result |-> Some(RevertedWithCustomError(decodedCustomErrorStrings))]
        ELSE [threw |-> FALSE, message |-> "",
              result |-> Some(RevertedUndecodablePlain)]

decodeExceptionDataPlain(ex, ents) ==
    IF ex.data # None /\ Val(ex.data).len > 0
    THEN decodeErrorDataPlain(Val(ex.data), ents)
    ELSE IF IncludesWithoutReason(ex.message)
    THEN [threw |-> FALSE, message |-> "", result |-> Some(RevertedNoData)]
    ELSE [threw |-> FALSE, message |-> "", result |-> None]

(***************************************************************************)
(* The collaborators' answers.  A run over a single hash is examined with  *)
(* every answer of the original network's provider below (world "full"),   *)
(* or with every failure of the target below (world "payloads"); a run     *)
(* over a longer list, with an output file, or on a network of another     *)
(* chain id, with the answers that lead to each kind of result (world      *)
(* "reduced").                                                             *)
(***************************************************************************)
Full == world = "full"
\* every payload and every contracts directory below is examined
Payloads == world = "payloads"

\* provider.getTransaction(txHash): null, or the transaction's record
TransactionResponses(txHash) ==
    {None} \cup
    { Some(Shape(s, Broadcast(txHash), bn)) :
        s \in (IF Full THEN {"attached", "bare", "garbled", "mislabelled"}
                        ELSE {"attached", "garbled"}),
        bn \in (IF Full THEN {None, Some(0), Some(1), Some(2)} ELSE {None, Some(1)}) }

\* provider.getTransactionReceipt(txHash): null, or a receipt
TransactionReceipts ==
    {None} \cup
    { Some([transactionIndex |-> n]) : n \in 0..(IF Full THEN MaxPrev ELSE 1) }

\* the transactions of a block that holds the target behind k others, each
\* of them in the shape shapes[n], and before `after` later ones
BlockTransactions(target, shapes, after) ==
    [n \in 1..Len(shapes) |-> Shape(shapes[n], PrevEnvelope(n), target.blockNumber)]
    \o <<Bare(Broadcast(target.hash), target.blockNumber)>>
    \o [n \in 1..after |-> Attached(NextEnvelope, target.blockNumber)]

\* provider.getBlockWithTransactions(blockNumber): null, or a block
Blocks(target) ==
    {None} \cup
    { Some([number |-> NumberOrZero(target.blockNumber),
            transactions |-> BlockTransactions(target, shapes, after)]) :
        shapes \in UNION { [1..k -> (IF Full THEN {"attached", "bare", "garbled",
                                                   "mislabelled"}
                                             ELSE {"attached"})] :
                           k \in 0..(IF Full THEN MaxPrev ELSE 1) },
        after \in (IF Full THEN {0, 1} ELSE {0}) }

\* Contracts of the "contracts" directory: two that declare the same custom
\* error, one of them a second error too, and one whose ABI declares errors
\* with the selectors of Error(string) and Panic(uint256)
Token ==
    ContractEntity("Token", ("0xcf479181" :> ErrorFragment("InsufficientBalance", "uint"))
                            @@ ("0x82b42900" :> ErrorFragment("Unauthorized", "none")))
Vault ==
    ContractEntity("Vault", ("0xcf479181" :> ErrorFragment("InsufficientBalance", "uint")))
Errors ==
    ContractEntity("Errors", (ErrorSelector :> ErrorFragment("Error", "string"))
                             @@ (PanicSelector :> ErrorFragment("Panic", "uint")))

\* getDeployableContractEntities(): the deployable contracts, in the order
\* of artifacts.getAllFullyQualifiedNames()
DeployableContracts ==
    IF Payloads THEN { <<>>, <<Token, Vault>>, <<Vault, Errors, Token>> }
    ELSE { <<Token, Vault>> }

\* the panic codes of the payloads below: those panicErrorCodeToReason names,
\* two it does not, and one above Number.MAX_SAFE_INTEGER
PanicCodes ==
    { Uint(0, n) : n \in {0, 1, 17, 18, 33, 34, 49, 50, 65, 81, 119} }
    \cup { Uint(MaxSafeHi + 1, 0) }

\* the payloads a reverted target may carry
ErrorDatas ==
    IF Payloads
    THEN { Payload(36, PanicSelector, "uint", "", n) : n \in PanicCodes } \cup
         { Payload(0, "0x", "none", "", Uint(0, 0)),
           Payload(2, "0x08c3", "none", "", Uint(0, 0)),
           Payload(100, ErrorSelector, "string", "insufficient balance", Uint(0, 0)),
           Payload(5, ErrorSelector, "junk", "", Uint(0, 0)),
           Payload(5, PanicSelector, "junk", "", Uint(0, 0)),
           Payload(36, "0xcf479181", "uint", "", Uint(0, 5)),
           Payload(4, "0x82b42900", "none", "", Uint(0, 0)),
           Payload(5, "0xcf479181", "junk", "", Uint(0, 0)),
           Payload(4, "0xdeadbeef", "none", "", Uint(0, 0)) }
    ELSE { Payload(100, ErrorSelector, "string", "insufficient balance", Uint(0, 0)),
           Payload(5, ErrorSelector, "junk", "", Uint(0, 0)),
           Payload(36, "0xcf479181", "uint", "", Uint(0, 5)) }

\* the exceptions ethers.provider.sendTransaction may throw for the target
TargetErrors ==
    { [data |-> None, message |-> m] :
        m \in (IF Payloads THEN {NoReasonMessage, "nonce too low"} ELSE {"nonce too low"}) }
    \cup { [data |-> Some(d), message |-> "VM Exception while processing transaction"] :
             d \in ErrorDatas }

\* a call to the original network's RPC that fails
RpcError == "could not detect network"

(***************************************************************************)
(* Context: the list of transaction hashes and the output file.  A string  *)
(* is a sequence of characters.                                            *)
(***************************************************************************)
\* the longest inline string of hashes examined on its own
MaxLen == 5

\* the characters the regular expression [0-9a-z] with the flag i matches
HexNumberChars ==
    {"0", "1", "2", "3", "4", "5", "6", "7", "8", "9"} \cup
    {"a", "b", "c", "d", "e", "f", "g", "h", "i", "j", "k", "l", "m", "n", "o", "p", "q",
     "r", "s", "t", "u", "v", "w", "x", "y", "z"} \cup
    {"A", "B", "C", "D", "E", "F", "G", "H", "I", "J", "K", "L", "M", "N", "O", "P", "Q",
     "R", "S", "T", "U", "V", "W", "X", "Y", "Z"}

\* String.prototype.split(/[^0-9a-z]+/ig): the pieces of s between the
\* matches, an empty piece in front of a leading match and behind a trailing
\* one.  k: the position read, piece: the piece being read, pieces: those
\* read, matching: the character before k belongs to a match.
RECURSIVE splitFrom(_, _, _, _, _)
splitFrom(s, k, piece, pieces, matching) ==
    IF k > Len(s) THEN Append(pieces, piece)
    ELSE IF s[k] \in HexNumberChars
    THEN splitFrom(s, k + 1, Append(piece, s[k]), pieces, FALSE)
    ELSE IF matching
    THEN splitFrom(s, k + 1, piece, pieces, TRUE)
    ELSE splitFrom(s, k + 1, <<>>, Append(pieces, piece), TRUE)

split(s) == splitFrom(s, 1, <<>>, <<>>, FALSE)

NonEmpty(s) == Len(s) > 0

\* the split alone, its empty pieces kept
getHexNumberArrayUnfiltered(hexNumberArrayString) == split(hexNumberArrayString)

\* #getHexNumberArray: split and filter(s => s.length > 0)
getHexNumberArray(hexNumberArrayString) ==
    SelectSeq(split(hexNumberArrayString), NonEmpty)

\* the hexadecimal text of a hash, and the hash a text is the text of
HashText(h) == IF h = TxA THEN <<"0", "x", "a">> ELSE <<"0", "x", "b">>
HashOfText(s) == CHOOSE h \in Hashes : HashText(h) = s

\* the inline string that lists hs as the default of SP_TX_HASHES does: each
\* hash in a line of its own, behind an empty line
RECURSIVE TextOf(_)
TextOf(hs) ==
    IF hs = <<>> THEN <<"\n">>
    ELSE <<"\n">> \o HashText(Head(hs)) \o TextOf(Tail(hs))

\* config.outputFilePath: none configured, or a path
\* The logging state is that of the batch script's context, which takes part
\* in the result texts; the scripts that replay one transaction indent their
\* lines on their own and store no result.
\* config.logSingleLevelIndent
logSingleLevelIndent == <<" ", " ">>

\* s.repeat(n)
RECURSIVE repeat(_, _)
repeat(s, n) == IF n <= 0 THEN <<>> ELSE s \o repeat(s, n - 1)

\* s.lastIndexOf(searchString): the 0-based index of the last occurrence,
\* -1 when there is none
lastIndexOf(s, searchString) ==
    LET found == { k \in 0..(Len(s) - Len(searchString)) :
                     SubSeq(s, k + 1, k + Len(searchString)) = searchString }
    IN  IF found = {} THEN -1 ELSE CHOOSE k \in found : \A m \in found : m <= k

\* context.increaseLogIndent(numberOfSteps), as the new value of logIndent
increaseLogIndent(indent, numberOfSteps) ==
    indent \o repeat(logSingleLevelIndent, numberOfSteps)

\* context.decreaseLogIndent(numberOfSteps), as the new value of logIndent
RECURSIVE decreaseLogIndent(_, _)
decreaseLogIndent(indent, numberOfSteps) ==
    IF numberOfSteps <= 0 THEN indent
    ELSE LET endIndex == lastIndexOf(indent, logSingleLevelIndent)
         IN  decreaseLogIndent(IF endIndex >= 0 THEN SubSeq(indent, 1, endIndex) ELSE indent,
                               numberOfSteps - 1)

OutputFilePaths == {"", "results.tsv"}

\* the lines of the output file, each by its two columns: the row of a result
\* (written as text, each run of whitespace in it as one space), and the
\* header, which holds the names of the columns
FileRow(hash, result) == [txHash |-> hash, result |-> result]
Header == FileRow(<<"tx_hash">>, Outcome("result"))

\* the output file as a run may find it: missing, empty, or holding the rows
\* of an earlier run
OutputFiles ==
    {None, Some(<<>>), Some(<<Header, FileRow(TxA, Success)>>)}

(***************************************************************************)
(* The text of a result of the batch script.  A text is a sequence of      *)
(* pieces: a piece is one whitespace character, or a stretch of text that  *)
(* neither starts nor ends with whitespace and holds no whitespace but     *)
(* single spaces.  The pictographs the texts start with are written (v),   *)
(* (x) and (-).                                                            *)
(***************************************************************************)
Whitespace == {" ", "\n", "\t", "\r"}

\* os.EOL
EOL == <<"\n">>

\* startTimeFormatted.length: the length of "YYYY-MM-DD hh:mm:ss.SSS"
TimeLength == 23

\* context.getLogIndentWithTimeSpace() when context.logIndent is indent
getLogIndentWithTimeSpace(indent) == repeat(<<" ">>, TimeLength) \o <<" ">> \o indent

\* context.previewLogWithTimeSpace(message) when context.logIndent is indent
previewLogWithTimeSpace(indent, message) ==
    repeat(<<" ">>, TimeLength) \o <<" ">> \o indent \o message

\* the pieces of a message of the model
Str(m) ==
    CASE m = "" -> <<>>
      [] m = " The transaction's receipt has not been found."
           -> <<" ", "The transaction's receipt has not been found.">>
      [] OTHER -> <<m>>

\* texts.join(separator)
RECURSIVE join(_, _)
join(texts, separator) ==
    IF texts = <<>> THEN <<>>
    ELSE IF Len(texts) = 1 THEN texts[1]
    ELSE texts[1] \o separator \o join(Tail(texts), separator)

\* `${errorDescription.errorFragment.name}(${decodedArgs}) -- from contract "${contractName}"`
DecodedErrorText(decodedError) ==
    <<decodedError.name, "(", ToString(decodedError.args), ") -- from contract \"",
      decodedError.contract, "\"">>

\* the list of custom errors, written two levels deeper than indent
CandidatesText(cands, indent) ==
    LET deeper == getLogIndentWithTimeSpace(increaseLogIndent(indent, 2))
    IN  deeper \o join([k \in 1..Len(cands) |-> DecodedErrorText(cands[k])], EOL \o deeper)

\* "Also it can be the following custom error(s): ..."
AlsoText(cands, indent) ==
    IF cands = <<>> THEN <<>>
    ELSE EOL
         \o previewLogWithTimeSpace(indent,
                                    <<"Also it can be the following custom error(s):">> \o EOL)
         \o CandidatesText(cands, indent)

\* the string the batch script logs and stores for result, built while
\* context.logIndent was indent; the empty string for no result
Text(result, indent) ==
    CASE result.kind = "Success" ->
           <<"(v) The transaction has been sent and minted successfully!">>
      [] result.kind = "RevertedWithMessage" ->
           <<"(x) The transaction reverted with string message: '">>
           \o Str(result.message) \o <<"'.">> \o AlsoText(result.also, indent)
      [] result.kind = "RevertedWithPanic" ->
           <<"(x) The transaction reverted due to panic with code:", " ",
             ToString(result.code), " ", "('">> \o Str(result.message) \o <<"').">>
           \o AlsoText(result.also, indent)
      [] result.kind = "RevertedWithCustomError" ->
           <<"(x) The transaction reverted with custom error (or several suitable ones):">>
           \o EOL \o CandidatesText(result.candidates, indent)
      [] result.kind = "RevertedUndecodable" ->
           <<"(x) The transaction reverted with a custom error (data:", " ",
             IF result.data = None THEN "" ELSE ToString(Val(result.data)),
             ") that cannot be decoded using the provided contracts.">>
           \o EOL
           \o previewLogWithTimeSpace(indent,
                <<"Try to add more contract(s) to the \"contracts\" directory to get decoded error.">>)
      [] result.kind = "RevertedNoData" ->
           <<"(x) The transaction reverted without error data. Perhaps the transaction tries to call a nonexistent contract function or contains wrong data that cannot be used to call a particular contract function.">>
      [] result.kind = "SendingFailed" ->
           <<"(x) The transaction sending or minting has been failed with the exception:", " ">>
           \o Str(result.message)
      [] result.kind = "ExceptionBeforeSending" ->
           <<"(-) An exception rose before transaction sending:", " ">>
           \o Str(result.message)
      [] OTHER -> <<>>

(***************************************************************************)
(* main and replaySingleTransaction.  The scripts that replay one          *)
(* transaction run the same steps in their main: "replayTransaction" is    *)
(* scripts/replayTransaction.ts, "replayOne" the second script of          *)
(* scripts/replay.ts, which does not check the network first.              *)
(***************************************************************************)
Scripts == {"replay", "replayOne", "replayTransaction"}
Batch == script = "replay"

txHash == txHashes[i + 1]

Batches == UNION { [1..n -> Hashes] : n \in 0..MaxBatch }

\* context.txHashes after initTxHashes, for the inline string s
txHashesOf(s) ==
    LET texts == getHexNumberArray(s)
    IN  [k \in 1..Len(texts) |-> HashOfText(texts[k])]

\* The state in which main starts: the batch script has read its
\* configuration, the other scripts their SP_TX_HASH; the output file is as
\* an earlier run left it.
Init ==
    /\ script \in Scripts
    /\ \/ /\ world \in {"full", "payloads"}
          /\ txHashesString \in { TextOf(<<h>>) : h \in Hashes }
          /\ outputFilePath = ""
          /\ file = None
          /\ originalChainId = HardhatChainId
       \/ /\ world = "reduced"
          /\ txHashesString \in { TextOf(hs) : hs \in (IF Batch THEN Batches
                                                        ELSE { <<h>> : h \in Hashes }) }
          /\ outputFilePath \in (IF Batch THEN OutputFilePaths ELSE {""})
          /\ file \in (IF outputFilePath # "" THEN OutputFiles ELSE {None})
          /\ originalChainId \in ChainIds
    /\ txHashes = txHashesOf(txHashesString)
    /\ verboseLogging \in (IF Batch THEN BOOLEAN ELSE {FALSE})
    /\ logIndent = <<>>
    /\ logEnabled = TRUE
    /\ pc = CASE script = "replay" -> "initStorageFile"
              [] script = "replayOne" -> "getTransaction"
              [] OTHER -> "getNetwork"
    /\ i = 0
    /\ txResponse = Unset
    /\ txReceipt = Unset
    /\ block = Unset
    /\ j = 0
    /\ e = None
    /\ entities = None
    /\ calls = <<>>
    /\ prevLog = <<>>
    /\ reconstructed = <<>>
    /\ hardhat = [forking |-> None, mined |-> 0, txs |-> <<>>]
    /\ results = <<>>
    /\ console = <<>>
    /\ providerCalls = <<>>
    /\ inFlight = <<>>

locals == <<txResponse, txReceipt, block, j, e, entities, calls, prevLog, reconstructed>>

\* an initStorageFile that writes the header with writeFileSync, whatever the
\* file holds
InitStorageFileOverwriting ==
    /\ pc = "initStorageFile"
    /\ inFlight = <<>>
    /\ file' = IF outputFilePath # "" THEN Some(<<Header>>) ELSE file
    /\ pc' = "getNetwork"
    /\ logIndent' = decreaseLogIndent(increaseLogIndent(logIndent, 1), 1)
    /\ UNCHANGED <<settings, i, locals, hardhat, results, console, providerCalls, inFlight,
                   logEnabled>>

\* context.initStorageFile(): the header is appended to a file that is
\* missing or empty
InitStorageFile ==
    /\ pc = "initStorageFile"
    /\ inFlight = <<>>
    /\ file' = IF outputFilePath # "" /\ (file = None \/ Val(file) = <<>>)
               THEN Some(<<Header>>)
               ELSE file
    /\ pc' = "getNetwork"
    /\ logIndent' = decreaseLogIndent(increaseLogIndent(logIndent, 1), 1)
    /\ UNCHANGED <<settings, i, locals, hardhat, results, console, providerCalls, inFlight,
                   logEnabled>>

\* The calls of the collaborators.  Each is awaited: the script goes on when
\* the call has been answered.
CallPoints == {"getNetwork", "getTransaction", "getTransactionReceipt", "getBlock",
               "reset", "mine", "sendPrevious", "sendTarget"}

\* the call made at pc, in the replay numbered i + 1
Pending == [call |-> pc, i |-> i]

\* the call made at pc has not been answered yet: the answer arrives
Answered == inFlight = <<Pending>> /\ inFlight' = <<>>

\* the argument of the call made at pc is computed: for a preceding
\* transaction without raw bytes, by defineRawTransaction
Reconstructing ==
    IF pc = "sendPrevious" /\ RawOrDefined(Val(block).transactions[j]).defined
    THEN Append(reconstructed, Val(block).transactions[j].hash)
    ELSE reconstructed

\* a call made while another may still be awaiting its answer
CallWithoutAwait ==
    /\ pc \in CallPoints
    /\ Len(inFlight) < 2
    /\ pc = "sendPrevious" => ~RawOrDefined(Val(block).transactions[j]).threw
    /\ inFlight' = Append(inFlight, Pending)
    /\ reconstructed' = Reconstructing
    /\ UNCHANGED <<settings, pc, i, txResponse, txReceipt, block, j, e, entities, calls,
                   prevLog, hardhat, results, file, console, providerCalls, logging>>

\* the script makes the call at pc and awaits its answer
Call ==
    /\ pc \in CallPoints
    /\ inFlight = <<>>
    /\ pc = "sendPrevious" => ~RawOrDefined(Val(block).transactions[j]).threw
    /\ inFlight' = Append(inFlight, Pending)
    /\ reconstructed' = Reconstructing
    /\ UNCHANGED <<settings, pc, i, txResponse, txReceipt, block, j, e, entities, calls,
                   prevLog, hardhat, results, file, console, providerCalls, logging>>

\* a line logged: what it tells, the exception message it shows and the
\* outcome text it shows (None: no such text)
ConsoleLine(kind, message, outcome) ==
    [kind |-> kind, message |-> message, outcome |-> outcome]

\* a storeResult that sits in main's try block: skipped when the replay threw
StoreResultInTry(result) ==
    /\ IF result.kind = "ExceptionBeforeSending"
       THEN UNCHANGED <<results, file>>
       ELSE /\ results' = Append(results, [txHash |-> txHash, result |-> result,
                                     logIndent |-> logIndent])
            /\ file' = IF outputFilePath # ""
                       THEN Some(Append(Val(file), FileRow(txHash, result)))
                       ELSE file
    /\ console' = Append(console, ConsoleLine("result", "", Some(result)))
    /\ i' = i + 1
    /\ pc' = "loop"

\* context.log(result), context.storeResult(txHash, result) and the loop's ++i
StoreResult(result) ==
    /\ results' = Append(results, [txHash |-> txHash, result |-> result,
                                     logIndent |-> logIndent])
    /\ file' = IF outputFilePath # ""
               THEN Some(Append(Val(file), FileRow(txHash, result)))
               ELSE file
    /\ console' = Append(console, ConsoleLine("result", "", Some(result)))
    /\ i' = i + 1
    /\ pc' = "loop"

\* an exception that leaves main: the promise main() returned is rejected
CatchRethrows(message) ==
    /\ pc' = "crashed"
    /\ UNCHANGED <<i, results, file, console, logging>>

\* a catch block that leaves the log disabled
CatchWithoutEnableLog(message) ==
    /\ StoreResult(ExceptionBeforeSending(message))
    /\ logIndent' = decreaseLogIndent(logIndent, 1)
    /\ UNCHANGED logEnabled

\* a catch block that leaves the indent of the replay that threw
CatchWithoutDecrease(message) ==
    /\ StoreResult(ExceptionBeforeSending(message))
    /\ logEnabled' = TRUE
    /\ UNCHANGED logIndent

\* main's catch around replaySingleTransaction
Catch(message) ==
    /\ StoreResult(ExceptionBeforeSending(message))
    /\ logIndent' = decreaseLogIndent(logIndent, 1)
    /\ logEnabled' = TRUE

\* an exception thrown by a step of the replay: the batch script's main
\* catches it, nothing catches it in the scripts that replay one transaction
Throw(message) ==
    IF Batch
    THEN Catch(message)
    ELSE /\ pc' = "crashed"
         /\ UNCHANGED <<i, results, file, console, logging>>

\* a failed check: thrown by the batch script; logged by the other scripts,
\* whose main returns
Refuse(message) ==
    IF Batch
    THEN Catch(message)
    ELSE /\ console' = Append(console, ConsoleLine("refused", message, None))
         /\ pc' = "return"
         /\ UNCHANGED <<i, results, file, logging>>

\* a call the original network's provider has answered (ok) or failed
ProviderCall(method, arg, ok) == [method |-> method, arg |-> arg, ok |-> ok]

\* await provider.getNetwork() and the chain id check
CheckNetwork ==
    /\ pc = "getNetwork"
    /\ Answered
    /\ \/ /\ providerCalls' = Append(providerCalls, ProviderCall("getNetwork", None, TRUE))
          /\ pc' = IF originalChainId # HardhatChainId THEN "return"
                   ELSE IF Batch THEN "loop" ELSE "getTransaction"
       \/ /\ providerCalls' = Append(providerCalls, ProviderCall("getNetwork", None, FALSE))
          /\ pc' = "crashed"
    /\ UNCHANGED <<settings, i, locals, hardhat, results, file, console, logging>>

\* a loop that a replay ended by an exception leaves
\* (for (...; i < txTotal && !failed; ++i))
LoopHeadUntilFailure ==
    /\ pc = "loop"
    /\ inFlight = <<>>
    /\ IF i < Len(txHashes)
          /\ (i = 0 \/ results[i].result.kind # "ExceptionBeforeSending")
       THEN /\ pc' = "getTransaction"
            /\ txResponse' = Unset
            /\ txReceipt' = Unset
            /\ block' = Unset
            /\ j' = 0
            /\ e' = None
            /\ entities' = None
            /\ calls' = <<>>
            /\ prevLog' = <<>>
            /\ reconstructed' = <<>>
            /\ logEnabled' = IF ~verboseLogging THEN FALSE ELSE logEnabled
            /\ logIndent' = increaseLogIndent(logIndent, 1)
       ELSE /\ pc' = "done"
            /\ UNCHANGED <<locals, logging>>
    /\ UNCHANGED <<settings, i, hardhat, results, file, console, providerCalls, inFlight>>

\* for (let i = 0; i < txTotal; ++i): enter the next replay, or finish
LoopHead ==
    /\ pc = "loop"
    /\ inFlight = <<>>
    /\ IF i < Len(txHashes)
       THEN /\ pc' = "getTransaction"
            /\ txResponse' = Unset
            /\ txReceipt' = Unset
            /\ block' = Unset
            /\ j' = 0
            /\ e' = None
            /\ entities' = None
            /\ calls' = <<>>
            /\ prevLog' = <<>>
            /\ reconstructed' = <<>>
            /\ logEnabled' = IF ~verboseLogging THEN FALSE ELSE logEnabled
            /\ logIndent' = increaseLogIndent(logIndent, 1)
       ELSE /\ pc' = "done"
            /\ UNCHANGED <<locals, logging>>
    /\ UNCHANGED <<settings, i, hardhat, results, file, console, providerCalls, inFlight>>

GetTransaction ==
    /\ pc = "getTransaction"
    /\ Answered
    /\ \/ /\ \E r \in TransactionResponses(txHash) : txResponse' = r
          /\ providerCalls' = Append(providerCalls,
                                     ProviderCall("getTransaction", Some(txHash), TRUE))
          /\ pc' = "getTransactionReceipt"
          /\ UNCHANGED <<i, results, file, console, logging>>
       \/ /\ providerCalls' = Append(providerCalls,
                                     ProviderCall("getTransaction", Some(txHash), FALSE))
          /\ Throw(RpcError)
          /\ UNCHANGED txResponse
    /\ UNCHANGED <<settings, txReceipt, block, j, e, entities, calls, prevLog, hardhat,
                   reconstructed>>

\* logIndent behind the line that tells the raw data was redefined: the
\* batch script logs it one level deeper
Redefined ==
    IF Batch THEN decreaseLogIndent(increaseLogIndent(logIndent, 1), 1) ELSE logIndent

\* getTransactionReceipt, checkTransaction, and the raw data of the target
GetTransactionReceipt ==
    /\ pc = "getTransactionReceipt"
    /\ Answered
    /\ \/ /\ providerCalls' = Append(providerCalls,
                                     ProviderCall("getTransactionReceipt", Some(txHash), TRUE))
          /\ \E r \in TransactionReceipts :
            /\ txReceipt' = r
            /\ LET chk == checkTransaction(txResponse, r)
               IN  IF chk # None
                   THEN Refuse(Val(chk)) /\ UNCHANGED <<txResponse, reconstructed>>
                   ELSE IF Val(txResponse).raw # None
                   THEN /\ pc' = "getBlock"
                        /\ UNCHANGED <<txResponse, reconstructed, i, results, file, console, logging>>
                   ELSE LET def == defineRawTransaction(Val(txResponse))
                        IN  /\ reconstructed' = Append(reconstructed, Val(txResponse).hash)
                            /\ IF def.threw
                               THEN Throw(def.message) /\ UNCHANGED txResponse
                               ELSE /\ txResponse' = Some([Val(txResponse) EXCEPT !.raw = def.raw])
                                    /\ pc' = "getBlock"
                                    /\ logIndent' = Redefined
                                    /\ UNCHANGED <<i, results, file, console, logEnabled>>
       \/ /\ providerCalls' = Append(providerCalls,
                                     ProviderCall("getTransactionReceipt", Some(txHash), FALSE))
          /\ Throw(RpcError)
          /\ UNCHANGED <<txResponse, txReceipt, reconstructed>>
    /\ UNCHANGED <<settings, block, j, e, entities, calls, prevLog, hardhat>>

\* getBlockWithTransactions and the position check: a TypeError is an
\* exception in every script, a mismatch is a failed check
GetBlock ==
    /\ pc = "getBlock"
    /\ Answered
    /\ \/ /\ providerCalls' =
                Append(providerCalls,
                       ProviderCall("getBlockWithTransactions",
                                    Some(NumberOrZero(Val(txResponse).blockNumber)), TRUE))
          /\ \E b \in Blocks(Val(txResponse)) :
            /\ block' = b
            /\ LET chk == checkPosition(b, txReceipt, txResponse)
               IN  IF chk = None
                   THEN pc' = "reset" /\ UNCHANGED <<i, results, file, console, logging>>
                   ELSE IF Val(chk) = PositionMessage
                   THEN Refuse(Val(chk))
                   ELSE Throw(Val(chk))
       \/ /\ providerCalls' =
                Append(providerCalls,
                       ProviderCall("getBlockWithTransactions",
                                    Some(NumberOrZero(Val(txResponse).blockNumber)), FALSE))
          /\ Throw(RpcError)
          /\ UNCHANGED block
    /\ UNCHANGED <<settings, txResponse, txReceipt, j, e, entities, calls, prevLog, hardhat,
                   reconstructed>>

\* the RPC URL of the original network the script is configured with
jsonRpcUrl == IF script = "replayOne" THEN rpcUrlOfReplayOne ELSE rpcUrl

\* a request to the Hardhat network, as recorded in calls
Request(method, url, blockNumber, hash, raw, ok) ==
    [method |-> method, jsonRpcUrl |-> url, blockNumber |-> blockNumber,
     hash |-> hash, raw |-> raw, ok |-> ok]

\* network.provider.request({method: "hardhat_reset", ...}), made when
\* `needed` holds
ResetIf(needed) ==
    /\ pc = "reset"
    /\ Answered
    /\ IF needed
       THEN \E ok \in BOOLEAN :
              /\ calls' = Append(calls, Request("hardhat_reset", Some(jsonRpcUrl),
                                                Some(previousBlockNumber(txResponse)),
                                                None, None, ok))
              /\ IF ok
                 THEN /\ hardhat' = [forking |-> Some([jsonRpcUrl |-> jsonRpcUrl,
                                                       blockNumber |-> previousBlockNumber(txResponse)]),
                                     mined |-> 0,
                                     txs |-> <<>>]
                      /\ pc' = "mine"
                      /\ UNCHANGED <<i, results, file, console, logging>>
                 ELSE /\ Throw("hardhat_reset failed")
                      /\ UNCHANGED hardhat
       ELSE /\ pc' = "mine"
            /\ UNCHANGED <<i, results, file, console, logging, calls, hardhat>>
    /\ UNCHANGED <<settings, txResponse, txReceipt, block, j, e, entities, prevLog,
                   providerCalls, reconstructed>>

ResetInFirstReplayOnly == ResetIf(i = 0)

Reset == ResetIf(TRUE)

\* the for-of loop of sendPreviousTransactions at position k: its body runs
\* unless the array is exhausted or holds the target there
LoopAtNoBreak(k) ==
    IF k > Len(Val(block).transactions) THEN "sendTarget" ELSE "sendPrevious"

\* a loop that leaves behind the target: if (tx.hash === txResponse.hash) break
\* at the end of the body
LoopAtBreakBehind(k) ==
    IF k > Len(Val(block).transactions)
       \/ (k > 1 /\ Val(block).transactions[k - 1].hash = Val(txResponse).hash)
    THEN "sendTarget"
    ELSE "sendPrevious"

LoopAt(k) ==
    IF k > Len(Val(block).transactions) \/ Val(block).transactions[k].hash = Val(txResponse).hash
    THEN "sendTarget"
    ELSE "sendPrevious"

\* if (txReceipt.transactionIndex > 0) ... sendPreviousTransactions
AfterMine ==
    IF Val(txReceipt).transactionIndex > 0 THEN LoopAt(1) ELSE "sendTarget"

\* logIndent at AfterMine: the batch script runs sendPreviousTransactions one
\* level deeper, and is back when the loop has ended
IndentAfterMine ==
    IF Batch /\ Val(txReceipt).transactionIndex > 0
    THEN IF AfterMine = "sendPrevious"
         THEN increaseLogIndent(logIndent, 1)
         ELSE decreaseLogIndent(increaseLogIndent(logIndent, 1), 1)
    ELSE logIndent

\* logIndent behind the round at position j
IndentAfterRound ==
    IF Batch /\ LoopAt(j + 1) = "sendTarget"
    THEN decreaseLogIndent(logIndent, 1)
    ELSE logIndent

\* evm_mine whose failure is swallowed
MineIgnoringFailure ==
    /\ pc = "mine"
    /\ Answered
    /\ \E ok \in BOOLEAN :
         /\ calls' = Append(calls, Request("evm_mine", None, None, None, None, ok))
         /\ hardhat' = [hardhat EXCEPT !.mined = @ + 1]
         /\ pc' = AfterMine
         /\ j' = 1
         /\ logIndent' = IndentAfterMine
         /\ UNCHANGED <<i, results, file, console, logEnabled>>
    /\ UNCHANGED <<settings, txResponse, txReceipt, block, e, entities, prevLog,
                   providerCalls, reconstructed>>

\* ethers.provider.send("evm_mine", [])
Mine ==
    /\ pc = "mine"
    /\ Answered
    /\ \E ok \in BOOLEAN :
         /\ calls' = Append(calls, Request("evm_mine", None, None, None, None, ok))
         /\ IF ok
            THEN /\ hardhat' = [hardhat EXCEPT !.mined = @ + 1]
                 /\ pc' = AfterMine
                 /\ j' = 1
                 /\ logIndent' = IndentAfterMine
                 /\ UNCHANGED <<i, results, file, console, logEnabled>>
            ELSE /\ Throw("evm_mine failed")
                 /\ UNCHANGED <<j, hardhat>>
    /\ UNCHANGED <<settings, txResponse, txReceipt, block, e, entities, prevLog,
                   providerCalls, reconstructed>>

\* the end of one round of the loop: the round's catch has swallowed any
\* exception, and the loop goes on
NextRoundUnlessFailed(failed) ==
    IF failed
    THEN Throw("transaction failed") /\ UNCHANGED j
    ELSE /\ j' = j + 1
         /\ pc' = LoopAt(j + 1)
         /\ logIndent' = IndentAfterRound
         /\ UNCHANGED <<i, results, file, console, logEnabled>>

NextRound(failed) ==
    /\ j' = j + 1
    /\ pc' = LoopAt(j + 1)
    /\ logIndent' = IndentAfterRound
    /\ UNCHANGED <<i, results, file, console, logEnabled>>

\* one round of the loop of sendPreviousTransactions: defineRawTransaction
\* throws and nothing is sent, or the transaction sent is answered
SendPrevious ==
    /\ pc = "sendPrevious"
    /\ LET tx == Val(block).transactions[j]
           def == RawOrDefined(tx)
       IN  IF def.threw
           THEN /\ inFlight = <<>>
                /\ reconstructed' = Append(reconstructed, tx.hash)
                /\ prevLog' = Append(prevLog, [hash |-> tx.hash, failed |-> TRUE,
                                               message |-> def.message])
                /\ NextRound(TRUE)
                /\ UNCHANGED <<calls, hardhat, inFlight>>
           ELSE /\ Answered
                /\ \E ok \in BOOLEAN :
                  /\ calls' = Append(calls, Request("eth_sendRawTransaction", None, None,
                                                    Some(tx.hash), def.raw, ok))
                  /\ hardhat' = [hardhat EXCEPT !.txs = Append(@, i + 1)]
                  /\ prevLog' = Append(prevLog,
                                       [hash |-> tx.hash, failed |-> ~ok,
                                        message |-> IF ok THEN "" ELSE "transaction failed"])
                  /\ NextRound(~ok)
                /\ UNCHANGED reconstructed
    /\ UNCHANGED <<settings, txResponse, txReceipt, block, e, entities, providerCalls>>

\* what getDeployableContractEntities may return while ex is decoded: it is
\* called when the exception carries error data of more than two characters
EntitiesFor(ex) ==
    IF ex.data # None /\ Val(ex.data).len > 0
    THEN { Some(d) : d \in DeployableContracts }
    ELSE { None }

EntitiesOrNone(ents) == IF ents = None THEN <<>> ELSE Val(ents)

\* the end of main's try block, indent being logIndent when
\* replaySingleTransaction returned
EndOfTry(indent) ==
    /\ logIndent' = decreaseLogIndent(indent, 1)
    /\ logEnabled' = IF ~verboseLogging THEN TRUE ELSE logEnabled

\* logIndent behind decodeExceptionData(ex): decodeErrorData lists the custom
\* errors two levels deeper
IndentAfterDecoding(ex, ents) ==
    IF /\ ex.data # None
       /\ Val(ex.data).len > 0
       /\ decodeCustomErrorData(Val(ex.data), ents) # <<>>
    THEN decreaseLogIndent(increaseLogIndent(logIndent, 2), 2)
    ELSE logIndent

\* the end of a replay whose target was sent and minted
TargetSucceeded ==
    IF Batch
    THEN StoreResult(Success) /\ EndOfTry(logIndent)
    ELSE /\ console' = Append(console, ConsoleLine("result", "", Some(Success)))
         /\ pc' = "done"
         /\ UNCHANGED <<i, results, file, logging>>

\* the catch block around the target's sendTransaction.  The scripts that
\* replay one transaction log the exception's message and, behind it, the
\* decoding result.
TargetFailed(ex, ents) ==
    IF Batch
    THEN LET res == TargetFailureResult(ex, ents)
         IN  IF res.threw
             THEN Catch(res.message)
             ELSE StoreResult(Val(res.result)) /\ EndOfTry(IndentAfterDecoding(ex, ents))
    ELSE LET dec == decodeExceptionDataPlain(ex, ents)
         IN  IF dec.threw
             THEN Throw(dec.message)
             ELSE /\ console' = Append(console, ConsoleLine("failed", ex.message, dec.result))
                  /\ pc' = "done"
                  /\ UNCHANGED <<i, results, file, logging>>

\* ethers.provider.sendTransaction(txResponse.raw) and the result of the replay
SendTarget ==
    /\ pc = "sendTarget"
    /\ Answered
    /\ hardhat' = [hardhat EXCEPT !.txs = Append(@, i + 1)]
    /\ \/ /\ calls' = Append(calls, Request("eth_sendRawTransaction", None, None,
                                            Some(Val(txResponse).hash), Val(txResponse).raw, TRUE))
          /\ e' = None
          /\ entities' = None
          /\ TargetSucceeded
       \/ \E ex \in TargetErrors :
            /\ calls' = Append(calls, Request("eth_sendRawTransaction", None, None,
                                              Some(Val(txResponse).hash), Val(txResponse).raw, FALSE))
            /\ e' = Some(ex)
            /\ \E ents \in EntitiesFor(ex) :
                 /\ entities' = ents
                 /\ TargetFailed(ex, EntitiesOrNone(ents))
    /\ UNCHANGED <<settings, txResponse, txReceipt, block, j, prevLog, providerCalls,
                   reconstructed>>

Next ==
    \/ InitStorageFile
    \/ Call
    \/ CheckNetwork
    \/ LoopHead
    \/ GetTransaction
    \/ GetTransactionReceipt
    \/ GetBlock
    \/ Reset
    \/ Mine
    \/ SendPrevious
    \/ SendTarget

Spec == Init /\ [][Next]_vars

(***************************************************************************)
(* The batch script when every call is answered, with a result or with an  *)
(* error, and the script takes every step it can take.                     *)
(***************************************************************************)
InitOfBatch == Init /\ Batch

SpecOfAnsweredCalls == InitOfBatch /\ [][Next]_vars /\ WF_vars(Next)

(***************************************************************************)
(* Context.initTxHashes on its own: the batch script with any inline       *)
(* string of up to MaxLen characters, up to the point where the hashes are *)
(* listed.  Here txHashes holds the texts as they were read.               *)
(***************************************************************************)
\* the characters of the strings examined: a small and a capital letter, a
\* digit, and three characters that are neither
Chars == {"a", "F", "7", "\n", ",", "_"}

Strings == UNION { [1..n -> Chars] : n \in 0..MaxLen }

InitOfTxHashes ==
    /\ script = "replay"
    /\ world = "reduced"
    /\ txHashesString \in Strings
    /\ txHashes = <<>>
    /\ outputFilePath = ""
    /\ file = None
    /\ originalChainId = HardhatChainId
    /\ verboseLogging = FALSE
    /\ logIndent = <<>>
    /\ logEnabled = TRUE
    /\ pc = "initTxHashes"
    /\ i = 0
    /\ txResponse = Unset
    /\ txReceipt = Unset
    /\ block = Unset
    /\ j = 0
    /\ e = None
    /\ entities = None
    /\ calls = <<>>
    /\ prevLog = <<>>
    /\ reconstructed = <<>>
    /\ hardhat = [forking |-> None, mined |-> 0, txs |-> <<>>]
    /\ results = <<>>
    /\ console = <<>>
    /\ providerCalls = <<>>
    /\ inFlight = <<>>

\* await context.initTxHashes() with config.txHashesFilePath empty
InitTxHashes ==
    /\ pc = "initTxHashes"
    /\ txHashes' = getHexNumberArray(txHashesString)
    /\ pc' = "initStorageFile"
    /\ UNCHANGED <<world, script, txHashesString, outputFilePath, originalChainId, i, locals,
                   hardhat, results, file, console, providerCalls, inFlight,
                   verboseLogging, logging>>

NextOfTxHashes == InitTxHashes

SpecOfTxHashes == InitOfTxHashes /\ [][NextOfTxHashes]_vars

(***************************************************************************)
(* Context.storeResult on its own: the row appended to the output file for *)
(* a hash and a result text.  Here results holds the call's arguments as   *)
(* texts, and file the characters of the output file.                      *)
(***************************************************************************)
\* the longest text of whitespace and letters examined
MaxText == 4

\* the rest of s behind its leading whitespace
RECURSIVE SkipWhitespace(_)
SkipWhitespace(s) ==
    IF s # <<>> /\ Head(s) \in Whitespace THEN SkipWhitespace(Tail(s)) ELSE s

\* result.replace(/\s/gi, " "): each whitespace character becomes a space
RECURSIVE replaceEachWhitespace(_)
replaceEachWhitespace(result) ==
    IF result = <<>> THEN <<>>
    ELSE <<IF Head(result) \in Whitespace THEN " " ELSE Head(result)>>
         \o replaceEachWhitespace(Tail(result))

\* result.replace(/\s+/gi, " ")
RECURSIVE replaceWhitespace(_)
replaceWhitespace(result) ==
    IF result = <<>> THEN <<>>
    ELSE IF Head(result) \in Whitespace
    THEN <<" ">> \o replaceWhitespace(SkipWhitespace(result))
    ELSE <<Head(result)>> \o replaceWhitespace(Tail(result))

\* const row = txHash + "\t" + formattedResult + os.EOL
row(hash, result) == hash \o <<"\t">> \o replaceWhitespace(result) \o EOL

\* "tx_hash\tresult" + os.EOL
HeaderText == <<"tx_hash", "\t", "result">> \o EOL

\* the result texts of the failures of the target, with every payload and
\* contracts directory, at one level of indent
FailureTexts ==
    { Text(Val(TargetFailureResult(ex, ents).result), logSingleLevelIndent) :
        ex \in { x \in TargetErrors :
                   \A d \in DeployableContracts : ~TargetFailureResult(x, d).threw },
        ents \in DeployableContracts }

\* the texts storeResult is called with: the result texts, and every text of
\* up to MaxText characters, each a letter or a whitespace character
ResultTexts ==
    FailureTexts
    \cup { Text(Success, logSingleLevelIndent),
           Text(ExceptionBeforeSending(" The transaction's receipt has not been found."),
                logSingleLevelIndent) }
    \cup UNION { [1..n -> {"a"} \cup Whitespace] : n \in 0..MaxText }

InitOfRows ==
    /\ script = "replay"
    /\ world = "payloads"
    /\ txHashesString \in { TextOf(<<h>>) : h \in Hashes }
    /\ txHashes = txHashesOf(txHashesString)
    /\ outputFilePath \in OutputFilePaths
    /\ file \in (IF outputFilePath # ""
                 THEN {Some(HeaderText), Some(HeaderText \o row(HashText(TxA), <<"a">>))}
                 ELSE {None})
    /\ results \in { <<[txHash |-> HashText(txHashes[1]), result |-> s]>> : s \in ResultTexts }
    /\ originalChainId = HardhatChainId
    /\ verboseLogging = FALSE
    /\ logIndent = <<>>
    /\ logEnabled = TRUE
    /\ pc = "storeResult"
    /\ i = 0
    /\ txResponse = Unset
    /\ txReceipt = Unset
    /\ block = Unset
    /\ j = 0
    /\ e = None
    /\ entities = None
    /\ calls = <<>>
    /\ prevLog = <<>>
    /\ reconstructed = <<>>
    /\ hardhat = [forking |-> None, mined |-> 0, txs |-> <<>>]
    /\ console = <<>>
    /\ providerCalls = <<>>
    /\ inFlight = <<>>

\* context.storeResult(txHash, result)
StoreResultRow ==
    /\ pc = "storeResult"
    /\ file' = IF outputFilePath # ""
               THEN Some(Val(file) \o row(results[1].txHash, results[1].result))
               ELSE file
    /\ pc' = "stored"
    /\ UNCHANGED <<settings, i, locals, hardhat, results, console, providerCalls, inFlight,
                   logging>>

NextOfRows == StoreResultRow

SpecOfRows == InitOfRows /\ [][NextOfRows]_vars

(***************************************************************************)
(* Vocabulary of the properties.                                           *)
(***************************************************************************)
ReplaySteps == {"getTransaction", "getTransactionReceipt", "getBlock", "reset",
                "mine", "sendPrevious", "sendTarget"}

\* the replay numbered i of the batch script has ended and its row has been
\* stored; the locals are still those of that replay
Finished == Batch /\ pc \in {"loop", "done"} /\ i > 0
Row == results[i]

\* a replay has ended, in whichever script: the locals are those of that replay
Over == Finished \/ (~Batch /\ pc \in {"done", "return", "crashed"} /\ txResponse # Unset)

\* the last line logged
LastLine == console[Len(console)]

\* the number of the replay the locals belong to
ReplayNo == IF Batch /\ pc \notin ReplaySteps THEN i ELSE i + 1

IsReset(c) == c.method = "hardhat_reset"
IsMine(c) == c.method = "evm_mine"
IsSend(c) == c.method = "eth_sendRawTransaction"

Target == Val(txResponse)
Transactions == Val(block).transactions
\* K: the number of transactions in front of the target in its block
K == Val(txReceipt).transactionIndex

\* the origin provider answered every request, the transaction is mined, its
\* raw bytes are at hand and the block holds it at the receipt's index
PassedPreflight ==
    /\ txResponse # Unset /\ txResponse # None
    /\ ~FalsyNumber(Target.blockNumber)
    /\ Target.raw # None
    /\ txReceipt # Unset /\ txReceipt # None
    /\ block # Unset /\ block # None
    /\ K + 1 <= Len(Transactions)
    /\ Transactions[K + 1].hash = Target.hash

\* what a request is and for which transaction, leaving out how it ended
CallShapes == [k \in 1..Len(calls) |-> <<calls[k].method, calls[k].hash>>]
ResetShape == <<"hardhat_reset", None>>
MineShape == <<"evm_mine", None>>
SendShape(h) == <<"eth_sendRawTransaction", Some(h)>>

\* the bytes of tx are attached, or its fields are those that were signed
Usable(tx) == tx.raw # None \/ tx.data = Broadcast(tx.hash).data

Preceding == [n \in 1..K |-> Transactions[n]]
SendsOf(txs) == [n \in 1..Len(txs) |-> SendShape(txs[n].hash)]

PositionMismatch ==
    /\ txResponse # Unset /\ txResponse # None
    /\ txReceipt # Unset /\ txReceipt # None
    /\ block # Unset /\ block # None
    /\ K + 1 <= Len(Transactions)
    /\ Transactions[K + 1].hash # Target.hash

\* C2: when the transaction at receipt.index of the fetched block is not the
\* target, the replay has ended (with an exception in the batch script, with
\* main returning in the others) and has made no request (reset, mine,
\* submission) to the Hardhat network.
C2_MismatchAborts ==
    PositionMismatch =>
        /\ calls = <<>>
        /\ hardhat.forking = None \/ Batch
        /\ IF Batch
           THEN /\ Finished
                /\ Row.result = ExceptionBeforeSending(PositionMessage)
           ELSE /\ pc = "return"
                /\ LastLine = ConsoleLine("refused", PositionMessage, None)

C2_Witness == PositionMismatch /\ Finished /\ K = 1

(***************************************************************************)
(* C3.                                                                     *)
(***************************************************************************)
\* C3: whichever way a replay ends, by returning or by an exception at any
\* step, main stores one row for its hash and goes on with the next hash;
\* when main is done every hash has its row.
C3_BatchIsolation ==
    /\ []((Batch /\ pc = "done") =>
            /\ Len(results) = Len(txHashes)
            /\ \A k \in 1..Len(txHashes) : results[k].txHash = txHashes[k])
    /\ [][(Batch /\ pc \in ReplaySteps /\ pc' \notin ReplaySteps) =>
            /\ pc' = "loop"
            /\ i' = i + 1
            /\ Len(results') = Len(results) + 1
            /\ SubSeq(results', 1, Len(results)) = results
            /\ results'[Len(results')].txHash = txHashes[i + 1]]_vars
    /\ [][(Batch /\ pc = "loop" /\ i < Len(txHashes)) => pc' = "getTransaction"]_vars

\* the first replay ended with an exception, the second one succeeded
C3_Witness ==
    /\ pc = "done"
    /\ Len(results) = 2
    /\ results[1].result.kind = "ExceptionBeforeSending"
    /\ results[2].result.kind = "Success"

(***************************************************************************)
(* C4.                                                                     *)
(***************************************************************************)
\* C4: once a replay has submitted a transaction, its first request was a
\* successful reset, and the Hardhat network holds, since that reset, one
\* empty block and only transactions submitted by this replay.
C4_ResetIsolatesReplays ==
    (\E k \in DOMAIN calls : IsSend(calls[k])) =>
        /\ IsReset(calls[1])
        /\ calls[1].ok
        /\ hardhat.mined = 1
        /\ \A n \in DOMAIN hardhat.txs : hardhat.txs[n] = ReplayNo

\* the second replay of a run submits after the first one did
C4_Witness ==
    /\ ReplayNo = 2
    /\ results[1].result.kind = "Success"
    /\ \E k \in DOMAIN calls : IsSend(calls[k])

(***************************************************************************)
(* C5.                                                                     *)
(***************************************************************************)
NoTransaction == txResponse = None
NoBlockNumber == txResponse # Unset /\ txResponse # None /\ Target.blockNumber = None
NoReceipt == txReceipt = None

\* C5: a replay for which the provider returned no transaction, no receipt,
\* or a transaction without a block number makes no request to the Hardhat
\* network and ends with the exception of checkTransaction for that case.
C5_PreflightFailure ==
    (NoTransaction \/ NoBlockNumber \/ NoReceipt) =>
        /\ calls = <<>>
        /\ pc \in ReplaySteps \/ Over
        /\ Finished => Row.result.kind = "ExceptionBeforeSending"
        /\ (Over /\ txReceipt # Unset) =>
              LET message ==
                    IF NoTransaction
                    THEN "The transaction with the provided hash does not exist"
                    ELSE IF FalsyNumber(Target.blockNumber)
                    THEN "The transaction with the provided hash has not been minted yet"
                    ELSE " The transaction's receipt has not been found."
              IN  IF Batch
                  THEN Row.result.message = message
                  ELSE pc = "return" /\ LastLine = ConsoleLine("refused", message, None)

\* a transaction that is not mined yet, with a receipt returned
C5_Witness == Finished /\ NoBlockNumber /\ ~NoReceipt /\ txReceipt # Unset

(***************************************************************************)
(* C6.                                                                     *)
(***************************************************************************)
\* C6: every round of sendPreviousTransactions is followed by the next one,
\* whether it failed or not: once the mine has succeeded, the replay ends
\* with all K preceding transactions attempted in block order and with the
\* target submitted last.
C6_FailuresDoNotStop ==
    /\ pc = "sendPrevious" => Len(prevLog) = j - 1
    /\ (Over /\ Len(calls) >= 2 /\ calls[2].ok) =>
          /\ Len(prevLog) = K
          /\ \A n \in 1..K : prevLog[n].hash = Transactions[n].hash
          /\ CallShapes[Len(calls)] = SendShape(Target.hash)
          /\ \A n \in 1..K :
               Usable(Transactions[n]) =>
                  \E k \in 3..(Len(calls) - 1) :
                     CallShapes[k] = SendShape(Transactions[n].hash)

\* the first of two preceding submissions failed, the second was made
C6_Witness ==
    /\ Finished /\ PassedPreflight
    /\ K = 2
    /\ Len(prevLog) = 2
    /\ prevLog[1].failed /\ prevLog[1].message = "transaction failed"
    /\ ~prevLog[2].failed

(***************************************************************************)
(* C7.                                                                     *)
(***************************************************************************)
\* C7: a reset is the first request of its replay and names config.rpcUrl
\* and the block before the target's; a mine is the second request and
\* follows a reset that succeeded; a submission comes third or later, after
\* a mine that succeeded.
C7_ResetThenMine ==
    \A k \in DOMAIN calls :
        /\ IsReset(calls[k]) =>
              /\ k = 1
              /\ calls[k].jsonRpcUrl = IF script = "replayOne"
                                        THEN Some("http://127.0.0.1:9933")
                                        ELSE Some("https://polygon-rpc.com")
              /\ calls[k].blockNumber = Some(Val(Target.blockNumber) - 1)
        /\ IsMine(calls[k]) => k = 2 /\ IsReset(calls[1]) /\ calls[1].ok
        /\ IsSend(calls[k]) => k >= 3 /\ IsMine(calls[2]) /\ calls[2].ok

\* a target of block 2 submitted after a reset to block 1 and a mine
C7_Witness ==
    /\ Len(calls) >= 3
    /\ Target.blockNumber = Some(2)
    /\ calls[1].blockNumber = Some(1)

(***************************************************************************)
(* C8, C9, C10.                                                            *)
(***************************************************************************)
\* the target was submitted in the replay that has ended
TargetSubmitted ==
    Finished /\ calls # <<>> /\ CallShapes[Len(calls)] = SendShape(Target.hash)

\* C8 as stated: the result is the success text exactly when the target's
\* submission did not fail, however many preceding submissions failed, and
\* when it fails the result is the one the decoding of the exception gives.
C8_OutcomeAsStated ==
    TargetSubmitted =>
        /\ (Row.result = Success) <=> (e = None)
        /\ e # None =>
              /\ ~TargetFailureResult(Val(e), EntitiesOrNone(entities)).threw
              /\ Row.result = Val(TargetFailureResult(Val(e), EntitiesOrNone(entities)).result)

\* C9 as stated: decodeErrorData returns a result for every payload and does
\* not throw, and a payload that cannot be ABI-decoded is reported as one
\* that cannot be decoded.
C9_ClassifyTotalAsStated ==
    (e # None /\ Val(e).data # None /\ Val(Val(e).data).len > 0) =>
        LET errorData == Val(Val(e).data)
            dec == decodeErrorData(errorData, EntitiesOrNone(entities))
        IN  /\ ~dec.threw
            /\ dec.result # None
            /\ errorData.args.form = "junk" => Val(dec.result).kind = "RevertedUndecodable"

\* C10 as stated: a failed submission of the target is reported as a revert
\* of the target or with the exception's text, never as an exception that
\* rose before the transaction was sent.
C10_TargetFailureAsStated ==
    (TargetSubmitted /\ e # None) =>
        Row.result.kind \in {"RevertedWithMessage", "RevertedWithPanic",
                             "RevertedWithCustomError", "RevertedUndecodable",
                             "RevertedNoData", "SendingFailed"}

(***************************************************************************)
(* Vocabulary of the properties about the decoding of a failed target.     *)
(***************************************************************************)
\* the target's submission failed and the replay has reported how it ended
TargetFailureReported == e # None /\ (Finished \/ (~Batch /\ pc = "done"))

\* the exception of the target's submission, and its payload
Exception == Val(e)
HasData == Exception.data # None
Data == Val(Exception.data)

\* the decoding result the report shows (None: none)
Decoding ==
    IF Batch
    THEN IF Row.result.kind \in {"SendingFailed", "ExceptionBeforeSending"}
         THEN None
         ELSE Some(Row.result)
    ELSE LastLine.outcome

\* the interface of a contract declares an error with the payload's selector
\* and the payload's arguments decode as that error's
Decodes(entity, payload) ==
    /\ payload.len >= 4
    /\ payload.selector \in DOMAIN entity.errors
    /\ entity.errors[payload.selector].form = payload.args.form

\* one string per contract that decodes the payload, in the order of the
\* contracts
Candidates(payload, ents) ==
    LET Matches(entity) == Decodes(entity, payload)
        matching == SelectSeq(ents, Matches)
    IN  [n \in 1..Len(matching) |->
           [name |-> matching[n].errors[payload.selector].name,
            args |-> payload.args,
            contract |-> matching[n].contractName]]

\* a payload with the selector of Error(string) and an encoded string behind it
StringRevert == HasData /\ StartsWith(Data, ErrorSelector) /\ Data.args.form = "string"
\* a payload with the selector of Panic(uint256) and an encoded number behind it
PanicRevert == HasData /\ StartsWith(Data, PanicSelector) /\ Data.args.form = "uint"
\* a payload with another selector, or too short to hold one
CustomRevert ==
    /\ HasData /\ Data.len > 0
    /\ ~StartsWith(Data, ErrorSelector) /\ ~StartsWith(Data, PanicSelector)

(***************************************************************************)
(* C11.                                                                    *)
(***************************************************************************)
\* C11 as stated: a payload with the string-revert selector is reported as
\* RevertedWithMessage with the decoded string and nothing else, a payload
\* with the panic selector as RevertedWithPanic and nothing else, whatever
\* the candidate contracts are.
C11_FirstMatchAsStated ==
    TargetFailureReported =>
        /\ StringRevert => Decoding = Some(RevertedWithMessage(Data.args.str))
        /\ (PanicRevert /\ ~ToNumberThrows(Data.args.num)) =>
              /\ Decoding # None
              /\ Val(Decoding).kind = "RevertedWithPanic"
              /\ Val(Decoding).also = <<>>

\* C11 amended: the selector decides the kind of the outcome and the decoded
\* string or code, whatever the candidate contracts are; the contracts that
\* decode the payload as a custom error of theirs are listed behind it.
C11_SelectorDecides ==
    TargetFailureReported =>
        /\ StringRevert =>
              Decoding = Some([RevertedWithMessage(Data.args.str)
                                 EXCEPT !.also = Candidates(Data, Val(entities))])
        /\ (PanicRevert /\ ~ToNumberThrows(Data.args.num)) =>
              /\ Decoding # None
              /\ Val(Decoding).kind = "RevertedWithPanic"
              /\ Val(Decoding).code = Data.args.num
              /\ Val(Decoding).candidates = <<>>
              /\ Val(Decoding).also = Candidates(Data, Val(entities))

\* a string revert decoded while a contract declares an error with the
\* selector of Error(string)
C11_Witness ==
    /\ TargetFailureReported /\ StringRevert
    /\ Val(Decoding).message = "insufficient balance"
    /\ Len(Val(Decoding).also) = 1
    /\ Val(Decoding).also[1].contract = "Errors"

(***************************************************************************)
(* C12.                                                                    *)
(***************************************************************************)
\* C12 as stated: a failed target whose exception carries no payload, an
\* empty one or one of at most 2 bytes is reported as RevertedNoData,
\* whatever the exception's message.
C12_NoDataAsStated ==
    (TargetFailureReported /\ (~HasData \/ Data.len <= 2)) =>
        Decoding = Some(RevertedNoData)

\* C12 amended: without a payload, or with an empty one (the string "0x"),
\* the report is RevertedNoData when the exception's message contains
\* "reverted without a reason"; otherwise there is no decoding result and
\* the report is the exception's message.  A payload of 1 or 2 bytes goes to
\* the classifier like any other and, no contract decoding it, is reported
\* as a custom error that cannot be decoded.
C12_NoData ==
    TargetFailureReported =>
        /\ (~HasData \/ Data.len = 0) =>
              /\ Decoding = IF IncludesWithoutReason(Exception.message)
                            THEN Some(RevertedNoData)
                            ELSE None
              /\ Decoding = None =>
                    IF Batch
                    THEN Row.result = SendingFailed(Exception.message)
                    ELSE LastLine = ConsoleLine("failed", Exception.message, None)
        /\ (HasData /\ Data.len \in 1..2) =>
              /\ Decoding # None
              /\ Val(Decoding).kind = "RevertedUndecodable"

\* an exception without a payload whose message is another one
C12_Witness ==
    /\ TargetFailureReported /\ Finished
    /\ ~HasData
    /\ Exception.message = "nonce too low"
    /\ Row.result.kind = "SendingFailed"

(***************************************************************************)
(* C13.                                                                    *)
(***************************************************************************)
\* the reasons of the specification's table, by panic code
ArithmeticReason ==
    "Arithmetic operation underflowed or overflowed outside of an unchecked block"
TableReason(n) ==
    IF n = Uint(0, 1) THEN "Assertion error"
    ELSE IF n = Uint(0, 17) THEN ArithmeticReason
    ELSE IF n = Uint(0, 18) THEN "Division or modulo division by zero"
    ELSE IF n = Uint(0, 33)
    THEN "Tried to convert a value into an enum, but the value was too big or negative"
    ELSE IF n = Uint(0, 34) THEN "Incorrectly encoded storage byte array"
    ELSE IF n = Uint(0, 49) THEN ".pop() was called on an empty array"
    ELSE IF n = Uint(0, 50) THEN "Array accessed at an out-of-bounds or negative index"
    ELSE IF n = Uint(0, 65)
    THEN "Too much memory was allocated, or an array was created that is too large"
    ELSE IF n = Uint(0, 81) THEN "Called a zero-initialized variable of internal function type"
    ELSE "???"

\* C13 as stated: a payload with the panic selector and a code behind it is
\* reported as RevertedWithPanic with that code and the reason the table
\* gives: nine codes have a reason of their own, every other code the
\* generic one.
C13_PanicTableAsStated ==
    (e # None /\ PanicRevert /\ (Over \/ pc = "loop")) =>
        /\ TargetFailureReported
        /\ Decoding # None
        /\ Val(Decoding).kind = "RevertedWithPanic"
        /\ Val(Decoding).code = Data.args.num
        /\ Val(Decoding).message = TableReason(Data.args.num)

\* C13 for the codes that are not above Number.MAX_SAFE_INTEGER: the report
\* is RevertedWithPanic with the code and the reason the table gives.
C13_PanicTableOfSafeCodes ==
    (e # None /\ PanicRevert /\ ~ToNumberThrows(Data.args.num) /\ (Over \/ pc = "loop")) =>
        /\ TargetFailureReported
        /\ Decoding # None
        /\ Val(Decoding).kind = "RevertedWithPanic"
        /\ Val(Decoding).code = Data.args.num
        /\ Val(Decoding).message = TableReason(Data.args.num)

\* a panic code above Number.MAX_SAFE_INTEGER: the replay has ended with the
\* exception of its conversion
C13_Witness ==
    /\ e # None /\ PanicRevert
    /\ ToNumberThrows(Data.args.num)
    /\ \/ Finished /\ Row.result = ExceptionBeforeSending("overflow")
       \/ ~Batch /\ pc = "crashed"

(***************************************************************************)
(* C14.                                                                    *)
(***************************************************************************)
\* C14: a payload whose selector is neither that of Error(string) nor that
\* of Panic(uint256) is reported with one candidate per contract that
\* decodes it, in the order of the contracts; a contract that does not
\* decode it is passed over, wherever it stands in that order.
C14_CandidatesInOrder ==
    (TargetFailureReported /\ CustomRevert) =>
        /\ Decoding # None
        /\ Val(Decoding).also = <<>>
        /\ Val(Decoding).candidates = Candidates(Data, Val(entities))
        /\ Val(Decoding).kind =
             IF Candidates(Data, Val(entities)) = <<>>
             THEN "RevertedUndecodable"
             ELSE "RevertedWithCustomError"

\* two of three contracts decode the payload, the one between them does not
C14_Witness ==
    /\ TargetFailureReported /\ CustomRevert
    /\ Val(entities) = <<Vault, Errors, Token>>
    /\ Val(Decoding).kind = "RevertedWithCustomError"
    /\ Len(Val(Decoding).candidates) = 2
    /\ Val(Decoding).candidates[1].contract = "Vault"
    /\ Val(Decoding).candidates[2].contract = "Token"

(***************************************************************************)
(* C15.                                                                    *)
(***************************************************************************)
\* C15 as stated: a payload with a selector no contract declares is reported
\* as RevertedUndecodable and the report carries the payload, in every
\* script.
C15_UndecodableAsStated ==
    (TargetFailureReported /\ CustomRevert /\ Data.len >= 4
     /\ Candidates(Data, Val(entities)) = <<>>) =>
        Decoding = Some(RevertedUndecodable(Data))

\* C15 in the batch script: the report is RevertedUndecodable and carries
\* the payload.  In the scripts that replay one transaction the report is
\* RevertedUndecodable and carries no payload.
C15_Undecodable ==
    (TargetFailureReported /\ CustomRevert /\ Data.len >= 4
     /\ Candidates(Data, Val(entities)) = <<>>) =>
        /\ Decoding # None
        /\ Val(Decoding).kind = "RevertedUndecodable"
        /\ Val(Decoding).data = IF Batch THEN Some(Data) ELSE None

\* replayTransaction.ts has reported a payload no contract decodes
C15_Witness ==
    /\ script = "replayTransaction"
    /\ TargetFailureReported /\ CustomRevert
    /\ Data.selector = "0xdeadbeef"
    /\ Val(Decoding).kind = "RevertedUndecodable"
    /\ Val(Decoding).data = None

(***************************************************************************)
(* Vocabulary of the properties about raw bytes.                           *)
(***************************************************************************)
\* the records without raw bytes the replay holds: the target as the
\* provider returned it, and the transactions of its block
TargetAsReturned ==
    IF pc = "getTransactionReceipt" /\ txResponse # None THEN {Val(txResponse)} ELSE {}
BlockRecords ==
    IF block # Unset /\ block # None
    THEN { Transactions[n] : n \in DOMAIN Transactions }
    ELSE {}
RecordsWithoutRaw == { tx \in TargetAsReturned \cup BlockRecords : tx.raw = None }

\* the requests that submitted a preceding transaction of the block
PrecedingSubmitted ==
    IF block # Unset /\ block # None /\ txReceipt # None
    THEN { <<k, n>> \in (DOMAIN calls) \X (DOMAIN Transactions) :
             IsSend(calls[k]) /\ n <= K /\ calls[k].hash = Some(Transactions[n].hash) }
    ELSE {}

(***************************************************************************)
(* C16.                                                                    *)
(***************************************************************************)
\* C16: for a record without raw bytes defineRawTransaction either returns
\* bytes whose hash is the record's hash or throws "serializing failed!"; the
\* bytes submitted for a record without raw bytes hash to its hash.
C16_ReconstructOrFail ==
    /\ \A tx \in RecordsWithoutRaw :
          LET def == defineRawTransaction(tx)
          IN  IF def.threw
              THEN def.raw = None /\ def.message = "serializing failed!"
              ELSE def.raw # None /\ keccak256(Val(def.raw)) = tx.hash
    /\ \A c \in PrecedingSubmitted :
          Transactions[c[2]].raw = None =>
             keccak256(Val(calls[c[1]].raw)) = Transactions[c[2]].hash

\* of two preceding transactions without raw bytes the first was
\* reconstructed and submitted, the second could not be reconstructed
C16_Witness ==
    /\ block # Unset /\ block # None /\ txReceipt # None /\ K = 2
    /\ Len(prevLog) = 2
    /\ Transactions[1].raw = None /\ Transactions[2].raw = None
    /\ <<3, 1>> \in PrecedingSubmitted
    /\ keccak256(Val(calls[3].raw)) = Transactions[1].hash
    /\ prevLog[2].message = "serializing failed!"

(***************************************************************************)
(* C17.                                                                    *)
(***************************************************************************)
\* C17 as stated: the bytes of every submission hash to the hash of the
\* transaction they are submitted for, whether the provider attached them or
\* they were reconstructed.
C17_SubmittedBytesAsStated ==
    \A k \in DOMAIN calls :
        IsSend(calls[k]) => keccak256(Val(calls[k].raw)) = Val(calls[k].hash)

\* a preceding transaction and the target, both submitted with attached
\* bytes that are those of another transaction
C17_Witness ==
    /\ Over /\ PassedPreflight /\ K = 1
    /\ Len(calls) = 4
    /\ keccak256(Val(calls[3].raw)) # Transactions[1].hash
    /\ keccak256(Val(calls[4].raw)) # Target.hash

(***************************************************************************)
(* C18.                                                                    *)
(***************************************************************************)
\* the reconstruction of the n-th preceding transaction has failed
ReconstructionFailed(n) ==
    n \in DOMAIN prevLog /\ prevLog[n].message = "serializing failed!"

\* the replay has ended, with the exception "serializing failed!"
EndedBySerializingFailed ==
    IF Batch
    THEN Finished /\ Row.result = ExceptionBeforeSending("serializing failed!")
    ELSE pc = "crashed"

\* C18 as stated: once the reconstruction of the target or of a preceding
\* transaction has failed, the replay has ended, its outcome reports the
\* failure, and no submission follows in it.
C18_MismatchAbortsAsStated ==
    /\ (/\ txResponse # Unset /\ txResponse # None /\ txReceipt # Unset
        /\ checkTransaction(txResponse, txReceipt) = None
        /\ Target.raw = None)
       => (calls = <<>> /\ EndedBySerializingFailed)
    /\ \A n \in DOMAIN prevLog :
          ReconstructionFailed(n) =>
             /\ EndedBySerializingFailed
             /\ Len(prevLog) = n
             /\ CallShapes[Len(calls)] # SendShape(Target.hash)

\* C18 for the target: when its reconstruction fails the replay ends with
\* that exception and without a request to the Hardhat network.
C18_TargetMismatchAborts ==
    (/\ txResponse # Unset /\ txResponse # None /\ txReceipt # Unset
     /\ checkTransaction(txResponse, txReceipt) = None
     /\ Target.raw = None)
    => (calls = <<>> /\ EndedBySerializingFailed)

\* the reconstruction of the first preceding transaction failed, and the
\* second one and the target were submitted after it
C18_Witness ==
    /\ Finished /\ PassedPreflight /\ K = 2
    /\ ReconstructionFailed(1)
    /\ CallShapes = <<ResetShape, MineShape, SendShape(Transactions[2].hash),
                      SendShape(Target.hash)>>
    /\ Row.result = Success

(***************************************************************************)
(* C19.                                                                    *)
(***************************************************************************)
\* C19: the fields defineRawTransaction hands to serializeTransaction hold
\* no gasPrice for a record of type 2, whatever gasPrice the record carries,
\* and the record's gasPrice for a record of another type; the bytes
\* submitted for a reconstructed transaction of type 2 encode no gasPrice.
C19_NoGasPriceInFeeMarket ==
    /\ \A tx \in RecordsWithoutRaw :
          /\ UnsignedFields(tx).type = tx.type
          /\ UnsignedFields(tx).gasPrice = IF tx.type = 2 THEN None ELSE tx.gasPrice
          /\ ~serializeTransaction(UnsignedFields(tx)).threw
    /\ \A c \in PrecedingSubmitted :
          LET tx == Transactions[c[2]]
          IN  (tx.raw = None /\ tx.type = 2) => Val(calls[c[1]].raw).gasPrice = None

\* a preceding transaction of type 2 whose record carries a gasPrice and no
\* raw bytes was submitted, and one of type 0 whose bytes encode its gasPrice
C19_Witness ==
    /\ block # Unset /\ block # None /\ txReceipt # None /\ K = 2
    /\ <<3, 1>> \in PrecedingSubmitted /\ <<4, 2>> \in PrecedingSubmitted
    /\ Transactions[1].raw = None /\ Transactions[1].type = 2
    /\ Transactions[1].gasPrice = Some(9)
    /\ Val(calls[3].raw).gasPrice = None
    /\ Transactions[2].raw = None /\ Transactions[2].type = 0
    /\ Val(calls[4].raw).gasPrice = Transactions[2].gasPrice

(***************************************************************************)
(* C20.                                                                    *)
(***************************************************************************)
\* C20: a reset or a mine that fails is the last request of its replay and
\* the replay has ended with its error; a replay makes no more than one
\* reset and one mine.
C20_ResetFailureEnds ==
    /\ Len(SelectSeq(calls, IsReset)) <= 1
    /\ Len(SelectSeq(calls, IsMine)) <= 1
    /\ \A k \in DOMAIN calls :
          ((IsReset(calls[k]) \/ IsMine(calls[k])) /\ ~calls[k].ok) =>
             /\ k = Len(calls)
             /\ IF Batch
                THEN /\ Finished
                     /\ Row.result = ExceptionBeforeSending(
                           IF IsReset(calls[k]) THEN "hardhat_reset failed"
                                                ELSE "evm_mine failed")
                ELSE pc = "crashed"

\* a mine that failed after its reset, in a replay behind which the batch
\* went on
C20_Witness ==
    /\ Finished
    /\ Len(calls) = 2 /\ IsMine(calls[2]) /\ ~calls[2].ok
    /\ pc = "loop" /\ i < Len(txHashes)

(***************************************************************************)
(* Vocabulary of the properties about the calls of the original network's  *)
(* provider.                                                               *)
(***************************************************************************)
ChainIdMismatch == originalChainId # HardhatChainId

IsGetNetwork(c) == c.method = "getNetwork"
IsFetch(c) == c.method \in {"getTransaction", "getTransactionReceipt",
                            "getBlockWithTransactions"}

\* nothing of a replay has happened: nothing was fetched, no request was made
\* to the Hardhat network, no result was stored or written
NoReplayStarted ==
    /\ SelectSeq(providerCalls, IsFetch) = <<>>
    /\ calls = <<>>
    /\ hardhat = [forking |-> None, mined |-> 0, txs |-> <<>>]
    /\ results = <<>>
    /\ file \in OutputFiles \cup {Some(<<Header>>)}
    /\ txResponse = Unset /\ txReceipt = Unset /\ block = Unset

(***************************************************************************)
(* C21.                                                                    *)
(***************************************************************************)
\* C21 as stated: in every script, when the chain id of the original network
\* is not the one configured for the Hardhat network, nothing of a replay
\* happens: no transaction, receipt or block is fetched, no reset, mine or
\* submission is requested and no result is stored.
C21_ChainMismatchAbortsAsStated ==
    ChainIdMismatch => NoReplayStarted

\* C21 in the scripts that check the network (replay.ts main,
\* replayTransaction.ts main): the run ends behind getNetwork, which is the
\* only call made
C21_ChainMismatchAborts ==
    (ChainIdMismatch /\ script # "replayOne") =>
        /\ NoReplayStarted
        /\ pc \in {"initStorageFile", "getNetwork", "return", "crashed"}
        /\ Len(providerCalls) <= 1
        /\ pc = "return" => providerCalls = <<ProviderCall("getNetwork", None, TRUE)>>

\* the second script of replay.ts has replayed its transaction to the end on
\* a fork of a network whose chain id is not the Hardhat network's
C21_Witness ==
    /\ ChainIdMismatch
    /\ script = "replayOne"
    /\ pc = "done"
    /\ hardhat.forking # None
    /\ Len(calls) >= 3

(***************************************************************************)
(* C22.                                                                    *)
(***************************************************************************)
\* C22: in the batch script storeResult has been called once for each replay
\* completed, the k-th call with the k-th hash of the list, so that a batch
\* that has run to its end has stored one pair for each hash of the list
\* (a hash listed twice has two pairs); a step leaves the pairs as they are
\* or adds one behind them.
C22_OneRowPerReplay ==
    /\ [](Batch =>
            /\ Len(results) = i
            /\ \A k \in 1..Len(results) : results[k].txHash = txHashes[k]
            /\ pc = "done" => Len(results) = Len(txHashes))
    /\ [][\/ results' = results
          \/ /\ Len(results') = Len(results) + 1
             /\ SubSeq(results', 1, Len(results)) = results]_vars

\* a batch that lists one hash twice has run to its end: two pairs with that
\* hash, of different results
C22_Witness ==
    /\ Batch /\ pc = "done"
    /\ Len(txHashes) = 2 /\ txHashes[1] = txHashes[2]
    /\ Len(results) = 2
    /\ results[1].result.kind = "ExceptionBeforeSending"
    /\ results[2].result = Success

(***************************************************************************)
(* C23.                                                                    *)
(***************************************************************************)
LastProviderCall == providerCalls[Len(providerCalls)]

\* the provider returned null for the block; its call failed; the block it
\* returned has no transaction at the receipt's index
BlockMissing == block = None
BlockCallFailed ==
    /\ txReceipt # Unset /\ block = Unset
    /\ providerCalls # <<>>
    /\ LastProviderCall.method = "getBlockWithTransactions"
    /\ ~LastProviderCall.ok
IndexOutside ==
    /\ block # Unset /\ block # None
    /\ K + 1 > Len(Transactions)

\* the Hardhat network holds no transaction of the current replay
NothingSubmitted == \A n \in DOMAIN hardhat.txs : hardhat.txs[n] # ReplayNo

LettersAndDigits == {"a", "F", "7"}

IsLetterOrDigit(s, k) == k \in 1..Len(s) /\ s[k] \in LettersAndDigits

\* the maximal runs of letters and digits of s: <<a, b>> when s[a..b] are
\* letters and digits, and neither s[a - 1] nor s[b + 1] is one
MaximalRuns(s) ==
    { r \in (1..Len(s)) \X (1..Len(s)) :
        /\ r[1] <= r[2]
        /\ \A k \in r[1]..r[2] : IsLetterOrDigit(s, k)
        /\ ~IsLetterOrDigit(s, r[1] - 1)
        /\ ~IsLetterOrDigit(s, r[2] + 1) }

\* the n-th of them in the order of the string
NthRun(s, n) ==
    CHOOSE r \in MaximalRuns(s) :
        Cardinality({ q \in MaximalRuns(s) : q[1] < r[1] }) = n - 1

\* C24: the hashes listed from the inline string are its maximal runs of
\* Latin letters and digits, in the order of the string: no empty text is
\* listed, whatever other characters lead, trail or separate the runs.
C24_MaximalRunsInOrder ==
    pc = "initStorageFile" =>
        /\ Len(txHashes) = Cardinality(MaximalRuns(txHashesString))
        /\ \A n \in 1..Len(txHashes) :
              txHashes[n] = SubSeq(txHashesString, NthRun(txHashesString, n)[1],
                                   NthRun(txHashesString, n)[2])

\* a string that starts with a delimiter and separates two runs by two
\* delimiters
C24_Witness ==
    /\ pc = "initStorageFile"
    /\ txHashesString = <<"\n", "a", ",", "\n", "7">>
    /\ txHashes = << <<"a">>, <<"7">> >>

(***************************************************************************)
(* C25.                                                                    *)
(***************************************************************************)
IsHeader(line) == line = Header

\* file'' holds the lines of file and one more behind them
Appended(before, after, line) ==
    /\ after # None
    /\ Val(after) = (IF before = None THEN <<>> ELSE Val(before)) \o <<line>>

\* C25: without an output file configured no step writes; with one, a step
\* that writes appends one line to what the file holds: the header, by
\* initStorageFile and only to a file that is missing or empty, or the row of
\* the replay that ends, and every replay that ends appends its row.  The
\* file never holds a second header.
C25_FileIsAppendOnly ==
    /\ [][/\ outputFilePath = "" => file' = file
          /\ file' # file =>
                \/ /\ pc = "initStorageFile"
                   /\ file = None \/ Val(file) = <<>>
                   /\ Appended(file, file', Header)
                \/ /\ Len(results') = Len(results) + 1
                   /\ Appended(file, file', FileRow(txHashes[Len(results')],
                                                    results'[Len(results')].result))
          /\ (outputFilePath # "" /\ results' # results) => file' # file]_vars
    /\ [](file # None => Len(SelectSeq(Val(file), IsHeader)) <= 1)

\* a batch of two has run to its end with a file that held the row of an
\* earlier run: the old lines, and the two new rows behind them
C25_Witness ==
    /\ Batch /\ pc = "done"
    /\ outputFilePath # ""
    /\ file # None /\ Len(Val(file)) = 4
    /\ SubSeq(Val(file), 1, 2) = <<Header, FileRow(TxA, Success)>>
    /\ Val(file)[3] = FileRow(txHashes[1], results[1].result)
    /\ Val(file)[4] = FileRow(txHashes[2], results[2].result)

(***************************************************************************)
(* C26.                                                                    *)
(***************************************************************************)
\* the records the replay holds: the target, and the transactions of its block
TargetRecord == IF txResponse # Unset /\ txResponse # None THEN {Val(txResponse)} ELSE {}
Records == TargetRecord \cup BlockRecords

\* how often defineRawTransaction was called for the hash h in this replay
TimesReconstructed(h) ==
    Cardinality({ n \in DOMAIN reconstructed : reconstructed[n] = h })

\* C26: a step calls defineRawTransaction only for a record that has no raw
\* bytes, and the raw bytes of the target change only in such a step; no
\* transaction of the block that has raw bytes attached was ever given to
\* defineRawTransaction, and what was submitted for it are the attached
\* bytes; the target was given to it at most once, and what was submitted
\* for the target are the bytes its record holds.
C26_ReconstructOnlyWithoutRaw ==
    /\ [][/\ (reconstructed' # reconstructed /\ reconstructed' # <<>>) =>
                \E tx \in Records :
                   /\ tx.raw = None
                   /\ reconstructed' = Append(reconstructed, tx.hash)
          /\ (TargetRecord # {} /\ txResponse' # Unset /\ txResponse' # txResponse) =>
                /\ Val(txResponse).raw = None
                /\ reconstructed' = Append(reconstructed, Val(txResponse).hash)]_vars
    /\ [](/\ \A tx \in BlockRecords : tx.raw # None => TimesReconstructed(tx.hash) = 0
          /\ \A c \in PrecedingSubmitted :
                Transactions[c[2]].raw # None => calls[c[1]].raw = Transactions[c[2]].raw
          /\ \A tx \in TargetRecord :
                /\ TimesReconstructed(tx.hash) <= 1
                /\ \A k \in DOMAIN calls :
                      (IsSend(calls[k]) /\ calls[k].hash = Some(tx.hash)) =>
                         calls[k].raw = tx.raw)

\* a target without raw bytes behind a preceding transaction with raw bytes
\* and one without: two reconstructions, three submissions
C26_Witness ==
    /\ Over /\ PassedPreflight /\ K = 2
    /\ Transactions[1].raw # None /\ Transactions[2].raw = None
    /\ reconstructed = <<Target.hash, Transactions[2].hash>>
    /\ Len(SelectSeq(calls, IsSend)) = 3
    /\ calls[3].raw = Transactions[1].raw

(***************************************************************************)
(* C27.                                                                    *)
(***************************************************************************)
\* the hash the current replay was asked to replay
Asked == txHashes[ReplayNo]
InReplay == ReplayNo \in DOMAIN txHashes /\ txResponse # Unset

\* the requests that submitted the transaction with hash h
Submissions(h) == { k \in DOMAIN calls : IsSend(calls[k]) /\ calls[k].hash = Some(h) }

\* C27 as stated: every replay that has ended has submitted its target
\* exactly once, with the last request it made to the Hardhat network.
C27_TargetLastAsStated ==
    (InReplay /\ Over) =>
        /\ Cardinality(Submissions(Asked)) = 1
        /\ Len(calls) \in Submissions(Asked)

\* C27 amended: a replay submits its target at most once, and the replay has
\* ended with that request, which is its last one; the target is submitted
\* in every replay that passed preflight and whose reset and mine
\* succeeded, and in no other; every other submission is that of a
\* transaction in front of the target's position in the block, in the
\* order of the block.
C27_TargetLast ==
    InReplay =>
        /\ Cardinality(Submissions(Asked)) <= 1
        /\ \A k \in Submissions(Asked) : k = Len(calls) /\ Over
        /\ Over =>
              (Submissions(Asked) # {} <=>
                 (PassedPreflight /\ Len(calls) >= 2 /\ calls[1].ok /\ calls[2].ok))
        /\ \A k \in DOMAIN calls :
              (IsSend(calls[k]) /\ k \notin Submissions(Asked)) =>
                 \E n \in 1..K : calls[k].hash = Some(Transactions[n].hash)
        /\ (block # Unset /\ block # None) =>
              \A k, l \in DOMAIN calls, n, m \in DOMAIN Transactions :
                 (/\ k < l /\ IsSend(calls[k]) /\ IsSend(calls[l])
                  /\ calls[k].hash = Some(Transactions[n].hash)
                  /\ calls[l].hash = Some(Transactions[m].hash)) => n < m

\* the target sits between one transaction and another: the first was
\* submitted, then the target, whose submission failed, and nothing else
C27_Witness ==
    /\ Over /\ PassedPreflight
    /\ K = 1 /\ Len(Transactions) = 3
    /\ CallShapes = <<ResetShape, MineShape, SendShape(Transactions[1].hash),
                      SendShape(Target.hash)>>
    /\ ~calls[4].ok

(***************************************************************************)
(* C28.                                                                    *)
(***************************************************************************)
\* C28: no more than one call awaits its answer; it is the call the script
\* stands at, made in the replay that is running, and in the batch script
\* the results of all replays before that one are stored; a call is made
\* only when none awaits its answer.
C28_OneCallInFlight ==
    /\ [](/\ Len(inFlight) <= 1
          /\ \A n \in DOMAIN inFlight :
                /\ inFlight[n].call = pc
                /\ inFlight[n].i = i
                /\ Batch => Len(results) = inFlight[n].i)
    /\ [][Len(inFlight') > Len(inFlight) => inFlight = <<>>]_vars

\* the target of the second replay of a batch is being submitted: one call
\* awaits its answer and the result of the first replay is stored
C28_Witness ==
    /\ Batch
    /\ inFlight = <<[call |-> "sendTarget", i |-> 1]>>
    /\ Len(results) = 1
    /\ Len(calls) = 3

(***************************************************************************)
(* C29.                                                                    *)
(***************************************************************************)
\* main has ended: by its last statement, by the return at the chain id
\* check, or by an exception nothing caught
Ended == pc \in {"done", "return", "crashed"}
AllReplayed == pc = "done" /\ Len(results) = Len(txHashes)

\* while a call awaits its answer the only step is its answer
OnlyTheAnswer == [][inFlight # <<>> => inFlight' = <<>>]_vars

\* C29 as stated: when every call is answered, the batch run ends, and it
\* has ended with a result for every hash of the list.
C29_TerminatesAsStated ==
    /\ Batch ~> Ended
    /\ [](Ended => AllReplayed)
    /\ OnlyTheAnswer

\* C29 amended: when every call is answered the batch run ends; it ends
\* with a result for every hash of the list once the chain id check has
\* passed, and without any result when getNetwork fails or reports another
\* chain id.  While a call awaits its answer the script takes no step: no
\* later call, no result, no later replay.
C29_Terminates ==
    /\ Batch ~> Ended
    /\ (Batch /\ pc = "loop") ~> AllReplayed
    /\ [](Ended => (AllReplayed \/ (pc # "done" /\ NoReplayStarted)))
    /\ OnlyTheAnswer

\* a batch of two has run to its end, the first replay ended by an exception
C29_Witness ==
    /\ Batch /\ AllReplayed
    /\ Len(txHashes) = 2
    /\ results[1].result.kind = "ExceptionBeforeSending"

(***************************************************************************)
(* C30.  The three copies of the replay are compared through what a run    *)
(* over one hash does as a function of the answers it gets: the calls that *)
(* replaySingleTransaction with main of replay.ts makes for these answers, *)
(* and the kind of result it reaches, are the reference.                   *)
(***************************************************************************)
OneHash == Len(txHashes) = 1

\* what the original network's provider was asked: method and argument
Asks == [k \in 1..Len(providerCalls) |-> <<providerCalls[k].method, providerCalls[k].arg>>]

\* every call but the last was answered
AllButLastAnswered == \A k \in 1..(Len(providerCalls) - 1) : providerCalls[k].ok
LastAnswered == providerCalls # <<>> /\ LastProviderCall.ok

\* getNetwork failed, or reported another chain id than the Hardhat network's
NetworkRefused ==
    \/ ChainIdMismatch
    \/ \E k \in 1..Len(providerCalls) : IsGetNetwork(providerCalls[k]) /\ ~providerCalls[k].ok

\* the transaction and its receipt are at hand, the transaction is mined and
\* its bytes are attached or were reconstructed
TargetAtHand ==
    /\ txResponse # Unset /\ txReceipt # Unset
    /\ checkTransaction(txResponse, txReceipt) = None
    /\ Val(txResponse).raw # None

\* the calls to the provider a copy makes in a run over one hash that has
\* ended, given the answers: a copy that checks the network asks for it
\* first and goes on when the chain id is the Hardhat network's; the
\* transaction, its receipt and its block follow, each when the call in
\* front of it was answered, the block when the target is at hand
AsksOfCopy(checksNetwork) ==
    LET network == IF checksNetwork THEN << <<"getNetwork", None>> >> ELSE <<>>
        h == Some(txHashes[1])
        fetches ==
            IF txResponse = Unset THEN << <<"getTransaction", h>> >>
            ELSE IF ~TargetAtHand
            THEN << <<"getTransaction", h>>, <<"getTransactionReceipt", h>> >>
            ELSE << <<"getTransaction", h>>, <<"getTransactionReceipt", h>>,
                    <<"getBlockWithTransactions",
                      Some(NumberOrZero(Val(txResponse).blockNumber))>> >>
    IN  IF checksNetwork /\ NetworkRefused THEN network ELSE network \o fetches

\* the requests to the Hardhat network in a run over one hash that has
\* ended, given the answers: none unless the replay passed preflight; then
\* the reset to the block in front of the target's, the mine, the preceding
\* transactions that are usable and the target, with the target's bytes
RequestsAsInEveryCopy ==
    IF ~PassedPreflight
    THEN calls = <<>>
    ELSE /\ Len(calls) >= 1
         /\ CallShapes =
              IF ~calls[1].ok THEN <<ResetShape>>
              ELSE IF Len(calls) < 2 \/ ~calls[2].ok THEN <<ResetShape, MineShape>>
              ELSE <<ResetShape, MineShape>> \o SendsOf(SelectSeq(Preceding, Usable))
                   \o <<SendShape(Target.hash)>>
         /\ calls[1].jsonRpcUrl = Some(jsonRpcUrl)
         /\ calls[1].blockNumber = Some(previousBlockNumber(txResponse))
         /\ \A k \in 1..Len(calls) :
              (IsSend(calls[k]) /\ calls[k].hash = Some(Target.hash))
                  => calls[k].raw = Target.raw

\* the target's submission was the last request of the run
TargetWasSubmitted == calls # <<>> /\ CallShapes[Len(calls)] = SendShape(Target.hash)

\* the kind of result a copy reaches in a run over one hash that has ended,
\* given the answers: none when the copy checks the network and the network
\* is refused; ExceptionBeforeSending when the replay ended in front of the
\* target's submission or the decoding threw; otherwise Success or the kind
\* the decoding of the exception gives
KindOfCopy(checksNetwork) ==
    IF checksNetwork /\ NetworkRefused THEN "none"
    ELSE IF ~TargetWasSubmitted THEN "ExceptionBeforeSending"
    ELSE IF e = None THEN "Success"
    ELSE LET res == TargetFailureResult(Val(e), EntitiesOrNone(entities))
         IN  IF res.threw THEN "ExceptionBeforeSending" ELSE Val(res.result).kind

\* the kind of result the run has reached: the kind of the result stored by
\* the batch script; in the scripts that replay one transaction the kind of
\* the result logged, SendingFailed when only the exception's message is
\* logged, ExceptionBeforeSending when the run ended behind a fetch by a
\* failed check or an exception, and none when it ended in front of any
KindReached ==
    IF Batch
    THEN IF results = <<>> THEN "none" ELSE results[1].result.kind
    ELSE IF pc = "done"
    THEN IF LastLine.outcome = None THEN "SendingFailed" ELSE Val(LastLine.outcome).kind
    ELSE IF SelectSeq(providerCalls, IsFetch) = <<>> THEN "none"
    ELSE "ExceptionBeforeSending"

\* C30 as stated: a run over one hash that has ended has made, in each of the
\* three scripts, the calls to the provider that replaySingleTransaction with
\* main of replay.ts makes for the answers received (getNetwork first, and
\* nothing else when the network is refused), the same requests to the
\* Hardhat network, and has reached the same kind of result.
C30_SameCallsAsStated ==
    (Ended /\ OneHash) =>
        /\ Asks = AsksOfCopy(TRUE)
        /\ RequestsAsInEveryCopy
        /\ KindReached = KindOfCopy(TRUE)

\* C30 behind the network check: the three scripts make the same calls and
\* reach the same kind of result as a function of the answers, but for
\* getNetwork and the chain id check, which the second script of replay.ts
\* leaves out
C30_SameCallsBehindNetworkCheck ==
    (Ended /\ OneHash) =>
        /\ AllButLastAnswered
        /\ Asks = AsksOfCopy(script # "replayOne")
        /\ RequestsAsInEveryCopy
        /\ KindReached = KindOfCopy(script # "replayOne")

\* the second script of replay.ts has ended a replay with a success after
\* three fetches and no getNetwork, on a network of the Hardhat chain id
C30_Witness ==
    /\ script = "replayOne"
    /\ pc = "done"
    /\ ~ChainIdMismatch
    /\ Len(providerCalls) = 3
    /\ SelectSeq(providerCalls, IsGetNetwork) = <<>>
    /\ KindReached = "Success"

(***************************************************************************)
(* C32.                                                                    *)
(***************************************************************************)
\* main of the batch script is between two iterations of its loop: in front
\* of the first, or behind context.storeResult of the replay numbered i
IterationBoundary == Batch /\ pc = "loop"

\* C32: at every iteration boundary of the batch script the log is enabled
\* and logIndent is the empty indent main started the first iteration with,
\* however the replay in front of the boundary ended and whatever
\* verboseLogging is; within a replay the log is enabled in verbose mode only.
C32_LoggingRestored ==
    /\ IterationBoundary => (logEnabled /\ logIndent = <<>>)
    /\ (Batch /\ pc \in ReplaySteps) => (logEnabled <=> verboseLogging)

\* in non-verbose mode the first replay threw, the second one ran its
\* preceding transactions and ended with a list of custom errors, and main
\* is at the boundary behind it
C32_Witness ==
    /\ IterationBoundary
    /\ ~verboseLogging
    /\ i = 2
    /\ results[1].result.kind = "ExceptionBeforeSending"
    /\ results[2].result.kind = "RevertedWithCustomError"
    /\ prevLog # <<>>
    /\ logEnabled /\ logIndent = <<>>

(***************************************************************************)
(* C31.                                                                    *)
(***************************************************************************)
\* the text of the result stored for the replay numbered k
StoredText(k) == Text(results[k].result, results[k].logIndent)

\* C31: the text of every result stored is not the empty string: it holds a
\* piece, and its first piece is a stretch of text that is not empty.
C31_ResultTextNotEmpty ==
    \A k \in 1..Len(results) :
        /\ StoredText(k) # <<>>
        /\ StoredText(k)[1] \notin Whitespace \cup {""}

\* two replays have ended: the target of the first was submitted and failed
\* with an exception that has no payload and tells of no revert, the second
\* ended with an exception in front of the submission
C31_Witness ==
    /\ Batch /\ pc = "loop" /\ i = 2
    /\ results[1].result.kind = "SendingFailed"
    /\ results[1].result.message = "nonce too low"
    /\ results[2].result.kind = "ExceptionBeforeSending"

(***************************************************************************)
(* C33.                                                                    *)
(***************************************************************************)
\* the result of a replay that has ended, as the answers of the original
\* network's provider and of the Hardhat network determine it: the first
\* call that failed or check that refused gives the exception's message;
\* otherwise the target was submitted, and its answer gives the result
ResultOfAnswers ==
    IF txResponse = Unset \/ txReceipt = Unset
    THEN ExceptionBeforeSending(RpcError)
    ELSE IF checkTransaction(txResponse, txReceipt) # None
    THEN ExceptionBeforeSending(Val(checkTransaction(txResponse, txReceipt)))
    ELSE IF Target.raw = None
    THEN ExceptionBeforeSending(defineRawTransaction(Target).message)
    ELSE IF block = Unset
    THEN ExceptionBeforeSending(RpcError)
    ELSE IF checkPosition(block, txReceipt, txResponse) # None
    THEN ExceptionBeforeSending(Val(checkPosition(block, txReceipt, txResponse)))
    ELSE IF ~calls[1].ok
    THEN ExceptionBeforeSending("hardhat_reset failed")
    ELSE IF ~calls[2].ok
    THEN ExceptionBeforeSending("evm_mine failed")
    ELSE IF e = None
    THEN Success
    ELSE LET res == TargetFailureResult(Exception, EntitiesOrNone(entities))
         IN  IF res.threw THEN ExceptionBeforeSending(res.message) ELSE Val(res.result)

\* C33: the text stored for a replay is the text of the result its answers
\* determine, written at one level of indent, and is stored for its hash:
\* neither the position in the batch, nor the results of the replays in
\* front of it, nor verboseLogging has a part in it.
C33_TextDependsOnAnswers ==
    Finished =>
        /\ Row.txHash = txHashes[i]
        /\ StoredText(i) = Text(ResultOfAnswers, logSingleLevelIndent)

\* the same hash replayed twice in verbose mode: the first replay threw, the
\* second ended with a list of custom errors, whose text holds the indent
C33_Witness ==
    /\ Finished /\ i = 2
    /\ verboseLogging
    /\ txHashes[1] = txHashes[2]
    /\ results[1].result.kind = "ExceptionBeforeSending"
    /\ results[2].result.kind = "RevertedWithCustomError"
    /\ StoredText(2) # Text(Row.result, <<>>)

(***************************************************************************)
(* C34.  The block numbers the original network's provider reports are     *)
(* natural numbers, or null for a transaction that is not mined.           *)
(***************************************************************************)
\* the replay is at the reset, or has requested it
ResetReached == pc = "reset" \/ \E k \in DOMAIN calls : IsReset(calls[k])

\* C34: a transaction of block 0 never reaches the reset; when the reset is
\* reached the target's block number is 1 or more, and the reset is
\* requested for the block in front of it, whose number is 0 or more.
C34_RootBlockNotNegative ==
    /\ (txResponse # Unset /\ txResponse # None /\ Target.blockNumber = Some(0))
          => (~ResetReached /\ calls = <<>>)
    /\ ResetReached =>
          /\ Target.blockNumber # None
          /\ Val(Target.blockNumber) >= 1
    /\ \A k \in DOMAIN calls :
          IsReset(calls[k]) =>
             /\ calls[k].blockNumber = Some(Val(Target.blockNumber) - 1)
             /\ Val(calls[k].blockNumber) >= 0

\* the target is in block 1: the reset is requested for block 0
C34_Witness ==
    /\ calls # <<>>
    /\ IsReset(calls[1])
    /\ Target.blockNumber = Some(1)
    /\ calls[1].blockNumber = Some(0)

(***************************************************************************)
(* C35.                                                                    *)
(***************************************************************************)
\* how often character c occurs in s
Count(s, c) == Cardinality({ k \in DOMAIN s : s[k] = c })

\* s with every maximal run of whitespace replaced by one space: the
\* characters of s that are no whitespace, and a space for each whitespace
\* character that has no whitespace in front of it
RunsAsSpaces(s) ==
    LET FirstOfRun(k) == s[k] \notin Whitespace \/ k = 1 \/ s[k - 1] \notin Whitespace
        kept == SelectSeq([k \in 1..Len(s) |-> k], FirstOfRun)
    IN  [n \in 1..Len(kept) |-> IF s[kept[n]] \in Whitespace THEN " " ELSE s[kept[n]]]

\* what storeResult has appended to the file
AppendedText == SubSeq(Val(file'), Len(Val(file)) + 1, Len(Val(file')))

\* the appended text between the tab behind the hash and the line terminator
AppendedBody ==
    SubSeq(AppendedText, Len(results[1].txHash) + 2, Len(AppendedText) - Len(EOL))

\* C35: storeResult keeps what the file holds and appends one line: the hash,
\* a tab, the result text with every run of whitespace replaced by one
\* space, and one line terminator; the line holds one tab, and no line break
\* but the one that ends it; between the tab and the line's end whitespace
\* is single spaces.
C35_RowIsOneLine ==
    [][(pc = "storeResult" /\ outputFilePath # "") =>
          /\ SubSeq(Val(file'), 1, Len(Val(file))) = Val(file)
          /\ AppendedText = results[1].txHash \o <<"\t">>
                            \o RunsAsSpaces(results[1].result) \o EOL
          /\ Count(AppendedText, "\t") = 1
          /\ Count(AppendedText, "\n") = 1
          /\ Count(AppendedText, "\r") = 0
          /\ AppendedText[Len(AppendedText)] = "\n"
          /\ \A k \in DOMAIN AppendedBody :
                AppendedBody[k] \in Whitespace =>
                   /\ AppendedBody[k] = " "
                   /\ k < Len(AppendedBody) => AppendedBody[k + 1] \notin Whitespace
      ]_vars

\* the row of a result that lists two custom errors on lines of their own
C35_Witness ==
    /\ pc = "stored"
    /\ outputFilePath # ""
    /\ Count(results[1].result, "\n") = 2
    /\ Len(results[1].result) > 50
    /\ Count(Val(file), "\n") = 2

====
